---- MODULE Spec2Model ----
(***************************************************************************)
(* Meshlet codec of tort: the offline encoder (tort_asset_builder,         *)
(* build_from_mesh / get_bits_per_vertex), the quantization helpers        *)
(* (tort_math::dequantize_unorm, meshopt::quantize_unorm), the BitReader   *)
(* and the mesh-shader decoder (tort_shaders, Meshlet::from_bits,          *)
(* pass_mesh); and, of tort_render, the PipelineCache (queue, the shader   *)
(* events, process_pipelines_system and its build tasks) and the frames    *)
(* of render_system (FrameCtx, the fence of each frame).                   *)
(*                                                                         *)
(* Numbers.  TLC integers are 32-bit, so a u32 word is a tuple of 32 bits  *)
(* (least significant first) and an f32 is a pair <<m, e>> standing for    *)
(* m * 2^e with m odd and below 2^24 (<<0, 0>> is 0.0); NaN and +inf are   *)
(* two distinguished pairs.  Every f32 operation rounds to 24 significant  *)
(* bits, ties to even, as the hardware does.  Only non-negative values in  *)
(* the normal exponent range occur in the modelled code paths.             *)
(***************************************************************************)
EXTENDS Integers, Sequences, FiniteSets, TLC

VARIABLES
    overflow_checks,   \* the build's overflow checks (dev profile: on, release: off)
    q_pc, q_v, q_bits, q_code, q_deq,   \* quantize / dequantize round trip
    br_pc, br_fields, br_first, br_out, \* the BitReader's unit test, generalised
    bit_writer,        \* BitWriter<Cursor<Vec<u8>>, LittleEndian>: the bits written
    bytes,             \* the Vec<u8> the writer is turned into
    reader,            \* BitReader.offset
    mesh, settings,    \* build_from_mesh's arguments
    clustering,        \* how meshopt::build_meshlets groups this mesh's triangles
    pc,                \* where build_from_mesh is: build_meshlets, sizes, headers,
                       \* payload, align, done (Ok(bytes)), err (Err), panic
    meshlets, meshlet_sizes, data_offset, meshlet_index, vertex_index,
    hdr_at, payload_at, \* history: the stream position each header / payload began at
    aabb_from_calls,    \* history: the calls of AABB::from, in order
    run, first_bytes,  \* the number of the build_from_mesh call, the first call's result
    \* pass_mesh, one work group
    dec_pc, wgid, dec_meshlet, dec_i, out_codes, out_positions, out_indices,
    \* get_bits_per_vertex on one meshlet at two tolerances
    w_pc, w_meshlet, w_errors, w_bits,
    \* the loop of get_bits_per_vertex, one iteration at a time
    s_pc, s_meshlet, s_error, s_bits, s_num,
    \* PipelineCache: Inner, the two Pipelines, modified_shaders, the build tasks
    cache_pc, assets, shaders, spirv_modules, ready, pipelines, ids, queued,
    shader_to_pipeline, modified_shaders, tasks,
    returned,          \* history: what each call of Pipelines::queue returned
    \* FrameCtx, and where render_system is
    frames, frame_offset, frame_index, r_pc, r_windows, r_window

qvars == <<q_pc, q_v, q_bits, q_code, q_deq>>
brvars == <<br_pc, br_fields, br_first, br_out>>
iovars == <<bit_writer, bytes, reader>>
argvars == <<mesh, settings, clustering>>
encvars == <<pc, meshlets, meshlet_sizes, data_offset, meshlet_index, vertex_index,
             hdr_at, payload_at, aabb_from_calls, run, first_bytes>>
decvars == <<dec_pc, wgid, dec_meshlet, dec_i, out_codes, out_positions, out_indices>>
wvars == <<w_pc, w_meshlet, w_errors, w_bits>>
svars == <<s_pc, s_meshlet, s_error, s_bits, s_num>>
pcvars == <<cache_pc, assets, shaders, spirv_modules, ready, pipelines, ids, queued,
            shader_to_pipeline, modified_shaders, tasks, returned>>
fvars == <<frames, frame_offset, frame_index, r_pc, r_windows, r_window>>
vars == <<overflow_checks, qvars, brvars, iovars, argvars, encvars, decvars, wvars, svars,
          pcvars, fvars>>
\* What the actions of one specification leave alone.
QRest == <<brvars, iovars, argvars, encvars, decvars, wvars, svars, pcvars, fvars>>
BRRest == <<qvars, argvars, encvars, decvars, wvars, svars, pcvars, fvars>>
EncRest == <<qvars, brvars, decvars, wvars, svars, pcvars, fvars>>
DecRest == <<overflow_checks, qvars, brvars, iovars, argvars, encvars, wvars, svars, pcvars, fvars>>
WRest == <<overflow_checks, qvars, brvars, iovars, argvars, encvars, decvars, svars, pcvars, fvars>>
PCRest == <<overflow_checks, qvars, brvars, iovars, argvars, encvars, decvars, wvars,
           svars, fvars>>
FRest == <<overflow_checks, qvars, brvars, iovars, argvars, encvars, decvars, wvars,
          svars, pcvars>>
SRest == <<overflow_checks, qvars, brvars, iovars, argvars, encvars, decvars, wvars, pcvars, fvars>>

(***************************************************************************)
(* i32 arithmetic of the scale ((1i32 << n) - 1i32).                       *)
(***************************************************************************)
MaxI32 == 2147483647
MinI32 == (-MaxI32) - 1

\* 1i32 << n with overflow checks off: the shift amount is masked to 5 bits.
OneShlI32(n) == LET s == n % 32 IN IF s = 31 THEN MinI32 ELSE 2^s

\* x - 1i32 with overflow checks off: wraps.
WrappingDecI32(x) == IF x = MinI32 THEN MaxI32 ELSE x - 1

\* With overflow checks on, (1i32 << n) - 1i32 panics: the shift for n >= 32,
\* the subtraction for n = 31.
ScalePanics(n) == n >= 31

UnormScaleI32(n) == WrappingDecI32(OneShlI32(n))

(***************************************************************************)
(* f32.                                                                    *)
(***************************************************************************)
NaN == <<-1, 0>>
Inf == <<-2, 0>>
F32Zero == <<0, 0>>
F32One == <<1, 0>>
F32Half == <<1, -1>>

IsNaN(a) == a = NaN
IsInf(a) == a = Inf
IsFinite(a) == a[1] >= 0

\* The number of bits of n (0 <= n < 2^31).
BitLen(n) ==
    IF n >= 2^30 THEN 31
    ELSE CHOOSE k \in 0..30 : n < 2^k /\ (k = 0 \/ n >= 2^(k - 1))

\* m * 2^e with the trailing zero bits of m moved into the exponent.
Canon(m, e) ==
    IF m = 0 THEN F32Zero
    ELSE LET t == CHOOSE k \in 0..30 : m % 2^k = 0 /\ (m \div 2^k) % 2 = 1
         IN  <<m \div 2^t, e + t>>

\* n * 2^e (plus, with sticky, a non-zero amount below n's last bit) rounded to
\* 24 significant bits, ties to even.
RoundSig(n, e, sticky) ==
    LET L == BitLen(n) IN
    IF L <= 24 THEN Canon(n, e)
    ELSE LET s == L - 24
             q == n \div (2^s)
             r == n % (2^s)
             half == 2^(s - 1)
             up == r > half \/ (r = half /\ (sticky \/ q % 2 = 1))
         IN  Canon(IF up THEN q + 1 ELSE q, e + s)

\* The exponent of the bit above the leading one.
Top(a) == a[2] + BitLen(a[1])

\* `x as f32` for a non-negative integer.
F32FromInt(n) == RoundSig(n, 0, FALSE)

\* a * b; one of the significands is below 2^7 in every use.
F32Mul(a, b) ==
    IF IsNaN(a) \/ IsNaN(b) THEN NaN
    ELSE IF IsInf(a) \/ IsInf(b)
         THEN (IF a = F32Zero \/ b = F32Zero THEN NaN ELSE Inf)
    ELSE RoundSig(a[1] * b[1], a[2] + b[2], FALSE)

\* Both operands on the exponent e: <<integer, sticky>>.
AlignTo(a, e) ==
    IF a[2] >= e THEN <<a[1] * 2^(a[2] - e), FALSE>>
    ELSE IF e - a[2] >= 31 THEN <<0, a[1] # 0>>
    ELSE <<a[1] \div 2^(e - a[2]), a[1] % 2^(e - a[2]) # 0>>

F32Add(a, b) ==
    IF IsNaN(a) \/ IsNaN(b) THEN NaN
    ELSE IF IsInf(a) \/ IsInf(b) THEN Inf
    ELSE IF a = F32Zero THEN b
    ELSE IF b = F32Zero THEN a
    ELSE LET hi == IF Top(a) >= Top(b) THEN a ELSE b
             lo == IF Top(a) >= Top(b) THEN b ELSE a
             e == Top(hi) - 30
             x == AlignTo(hi, e)
             y == AlignTo(lo, e)
         IN  RoundSig(x[1] + y[1], e, y[2])

F32Lt(a, b) ==
    IF IsNaN(a) \/ IsNaN(b) THEN FALSE
    ELSE IF IsInf(a) THEN FALSE
    ELSE IF IsInf(b) THEN TRUE
    ELSE IF a = F32Zero THEN b # F32Zero
    ELSE IF b = F32Zero THEN FALSE
    ELSE IF Top(a) # Top(b) THEN Top(a) < Top(b)
    ELSE LET e == IF a[2] < b[2] THEN a[2] ELSE b[2]
         IN  a[1] * 2^(a[2] - e) < b[1] * 2^(b[2] - e)

F32Le(a, b) == ~IsNaN(a) /\ ~IsNaN(b) /\ ~F32Lt(b, a)
F32Ge(a, b) == F32Le(b, a)

\* (a - b).abs()
F32AbsDiff(a, b) ==
    IF IsNaN(a) \/ IsNaN(b) THEN NaN
    ELSE IF IsInf(a) /\ IsInf(b) THEN NaN
    ELSE IF IsInf(a) \/ IsInf(b) THEN Inf
    ELSE IF a = b THEN F32Zero
    ELSE IF a = F32Zero THEN b
    ELSE IF b = F32Zero THEN a
    ELSE LET hi == IF F32Lt(a, b) THEN b ELSE a
             lo == IF F32Lt(a, b) THEN a ELSE b
             e == Top(hi) - 30
             x == AlignTo(hi, e)
             y == AlignTo(lo, e)
         IN  IF y[2] THEN RoundSig(x[1] - y[1] - 1, e, TRUE)
             ELSE RoundSig(x[1] - y[1], e, FALSE)

\* Seven more bits of the quotient of r * 2^.. by d: <<quotient, remainder>>.
DivStep(qr, d) == <<qr[1] * 2^7 + ((qr[2] * 2^7) \div d), (qr[2] * 2^7) % d>>

\* a / b: both significands brought to 24 bits, the quotient taken to 28
\* binary places, the remainder kept as the sticky bit of the rounding.
F32Div(a, b) ==
    IF IsNaN(a) \/ IsNaN(b) THEN NaN
    ELSE IF IsInf(a) THEN (IF IsInf(b) THEN NaN ELSE Inf)
    ELSE IF IsInf(b) THEN F32Zero
    ELSE IF b = F32Zero THEN (IF a = F32Zero THEN NaN ELSE Inf)
    ELSE IF a = F32Zero THEN F32Zero
    ELSE LET La == BitLen(a[1])
             Lb == BitLen(b[1])
             n == a[1] * 2^(24 - La)
             d == b[1] * 2^(24 - Lb)
             qr == DivStep(DivStep(DivStep(DivStep(<<n \div d, n % d>>, d), d), d), d)
         IN  RoundSig(qr[1], a[2] - b[2] + La - Lb - 28, qr[2] # 0)

\* f32::max: a NaN operand is ignored.
F32Max(a, b) ==
    IF IsNaN(a) THEN b
    ELSE IF IsNaN(b) THEN a
    ELSE IF F32Lt(a, b) THEN b ELSE a

\* f32::min
F32Min(a, b) ==
    IF IsNaN(a) THEN b
    ELSE IF IsNaN(b) THEN a
    ELSE IF F32Lt(b, a) THEN b ELSE a

\* `x as i32`: truncates, saturates, NaN gives 0.
F32AsI32(a) ==
    IF IsNaN(a) THEN 0
    ELSE IF IsInf(a) THEN MaxI32
    ELSE IF a[2] >= 0 THEN (IF Top(a) > 31 THEN MaxI32 ELSE a[1] * 2^(a[2]))
    ELSE IF -a[2] >= 31 THEN 0
    ELSE a[1] \div 2^(-a[2])

(***************************************************************************)
(* Quantization.  meshopt::quantize_unorm is the encoder's collaborator;   *)
(* tort_math::dequantize_unorm is its inverse with the same i32 scale.     *)
(***************************************************************************)
\* meshopt::quantize_unorm(v, n): clamp to [0, 1], (v * scale + 0.5) as i32
quantize_unorm(v, n) ==
    LET scale == F32FromInt(UnormScaleI32(n))
        v0 == IF F32Ge(v, F32Zero) THEN v ELSE F32Zero
        v1 == IF F32Le(v0, F32One) THEN v0 ELSE F32One
    IN  F32AsI32(F32Add(F32Mul(v1, scale), F32Half))

\* tort_math::dequantize_unorm(value, n): value as f32 / scale
dequantize_unorm(value, n) ==
    LET scale == F32FromInt(UnormScaleI32(n))
    IN  F32Div(F32FromInt(value), scale)

(***************************************************************************)
(* u32 words and the bit stream.                                           *)
(***************************************************************************)
WordBits == 32

\* The low n bits of a natural number below 2^31, least significant first.
NatBits(value, n) ==
    [i \in 1..n |-> IF i >= WordBits THEN 0 ELSE (value \div 2^(i - 1)) % 2]

U32(value) == NatBits(value, WordBits)

\* The number eight bits from position `from` on stand for.
ByteNat(bits, from) ==
    bits[from] + 2 * bits[from + 1] + 4 * bits[from + 2] + 8 * bits[from + 3]
    + 16 * bits[from + 4] + 32 * bits[from + 5] + 64 * bits[from + 6]
    + 128 * bits[from + 7]

\* A u32 below 2^31 as a number.
U32Nat(a) ==
    ByteNat(a, 1) + 256 * ByteNat(a, 9) + 65536 * ByteNat(a, 17)
    + 16777216 * (ByteNat(a, 25) % 128)

\* A left shift that loses the word: what a reader that never looks at the
\* second word of a straddling field computes.
ShlU32Lost(a, k) == [i \in 1..WordBits |-> 0]

\* a >> k, a << k (0 <= k < 32), a | b, a & b on u32
ShrU32(a, k) == [i \in 1..WordBits |-> IF i + k <= WordBits THEN a[i + k] ELSE 0]
ShlU32(a, k) == [i \in 1..WordBits |-> IF i - k >= 1 THEN a[i - k] ELSE 0]
OrU32(a, b) == [i \in 1..WordBits |-> IF a[i] = 1 \/ b[i] = 1 THEN 1 ELSE 0]
AndU32(a, b) == [i \in 1..WordBits |-> IF a[i] = 1 /\ b[i] = 1 THEN 1 ELSE 0]

\* (1u32 << num_bits) - 1 with overflow checks off: the shift amount is masked
\* to 5 bits, so num_bits = 32 gives (1 << 0) - 1 = 0.
MaskU32(num_bits) == [i \in 1..WordBits |-> IF i <= num_bits % WordBits THEN 1 ELSE 0]

\* With overflow checks on, 1u32 << num_bits panics for num_bits >= 32.
MaskPanics(num_bits) == num_bits >= WordBits

\* BitWrite::write(bits, value) fails ("excessive value for bits written")
\* when bits < 32 and value >= 1 << bits.  Values here are below 2^31, so one
\* of 31 bits always fits.
WriteFails(bits, value) == bits < WordBits - 1 /\ value >= 2^bits

\* BitWrite::write(bits, value), little endian: the low bits first.
BitWrite(stream, bits, value) == stream \o NatBits(value, bits)

RECURSIVE Zeros(_)
Zeros(n) == IF n = 0 THEN <<>> ELSE <<0>> \o Zeros(n - 1)

\* byte_align(): zero bits up to the next byte boundary.
ByteAlign(stream) == stream \o Zeros((8 - (Len(stream) % 8)) % 8)

\* into_writer().into_inner(): the bytes of a byte-aligned stream.
IntoBytes(stream) ==
    [k \in 1..(Len(stream) \div 8) |-> ByteNat(stream, 8 * k - 7)]

\* No padding to whole words.
PadToByte(bs) == bs

\* while (bytes.len() & 3) != 0 { bytes.push(0) }
PadToWord(bs) == bs \o Zeros((4 - (Len(bs) % 4)) % 4)

\* The bytes seen as &[u32] on a little-endian machine; index from 0.
WordAt(bs, idx) ==
    [i \in 1..WordBits |->
        (bs[4 * idx + 1 + ((i - 1) \div 8)] \div 2^((i - 1) % 8)) % 2]

NumWords(bs) == Len(bs) \div 4

\* BitReader::read_bits_unchecked: <<value, offset afterwards>>
read_bits_unchecked(buffer, offset, num_bits) ==
    LET bit_idx == offset % WordBits
        idx == offset \div WordBits
        low == ShrU32(WordAt(buffer, idx), bit_idx)
        value == IF bit_idx + num_bits > WordBits
                 THEN OrU32(low, ShlU32(WordAt(buffer, idx + 1), WordBits - bit_idx))
                 ELSE low
    IN  <<AndU32(value, MaskU32(num_bits)), offset + num_bits>>

\* The words a read touches lie inside the buffer.
ReadInBounds(buffer, offset, num_bits) ==
    LET last == IF (offset % WordBits) + num_bits > WordBits
                THEN (offset \div WordBits) + 1 ELSE offset \div WordBits
    IN  last < NumWords(buffer)

(***************************************************************************)
(* f32::to_bits / f32::from_bits for non-negative values: the sign bit is  *)
(* 0, so the pattern is a natural number below 2^31.                       *)
(***************************************************************************)
F32ToBits(a) ==
    IF IsNaN(a) THEN 2143289344
    ELSE IF IsInf(a) THEN 2139095040
    ELSE IF a = F32Zero THEN 0
    ELSE LET L == BitLen(a[1])
         IN  (a[2] + L - 1 + 127) * 2^23 + (a[1] - 2^(L - 1)) * 2^(24 - L)

F32FromBits(n) ==
    IF n = 0 THEN F32Zero
    ELSE IF n = 2139095040 THEN Inf
    ELSE IF n > 2139095040 THEN NaN
    ELSE Canon(2^23 + (n % 2^23), (n \div 2^23) - 127 - 23)

(***************************************************************************)
(* AABB (tort_math/src/aabb.rs).                                           *)
(***************************************************************************)
\* a - b where a >= b, as in every use below.
F32Sub(a, b) == F32AbsDiff(a, b)

\* The fold of f32::min / f32::max over one axis of the points (none of
\* them NaN): the least and the greatest value.
AxisMin(points, axis) ==
    LET values == {points[j][axis] : j \in 1..Len(points)}
    IN  CHOOSE v \in values : \A u \in values : ~F32Lt(u, v)
AxisMax(points, axis) ==
    LET values == {points[j][axis] : j \in 1..Len(points)}
    IN  CHOOSE v \in values : \A u \in values : ~F32Lt(v, u)

\* AABB::from(iterator) for a non-empty iterator: min and max start at
\* f32::MAX and f32::MIN and take each point in.
AABBFrom(points) ==
    [min |-> <<AxisMin(points, 1), AxisMin(points, 2), AxisMin(points, 3)>>,
     max |-> <<AxisMax(points, 1), AxisMax(points, 2), AxisMax(points, 3)>>]

\* AABB::range(); the third operand is max.z - max.z in the source.
AABBRange(aabb) ==
    F32Max(F32Max(F32Sub(aabb.max[1], aabb.min[1]),
                  F32Sub(aabb.max[2], aabb.min[2])),
           F32Sub(aabb.max[3], aabb.max[3]))

\* mem::size_of::<AABB>(): two Vec3 of three f32
AABBSizeBytes == 24

(***************************************************************************)
(* The bit-width search (tort_asset_builder/src/mesh/util.rs).             *)
(***************************************************************************)
BitsRangeStart == 4
BitsRangeEnd == 31
FullBits == 32

\* The positions of a meshlet's vertices, in the meshlet's order.
MeshletPositions(vertices, meshlet) ==
    [j \in 1..Len(meshlet.vertices) |-> vertices[meshlet.vertices[j] + 1].position]

\* (vertex.position.x - aabb.min.x) / (aabb.max.x - aabb.min.x), per axis
Normalized(position, aabb, axis) ==
    F32Div(F32Sub(position[axis], aabb.min[axis]),
           F32Sub(aabb.max[axis], aabb.min[axis]))

\* (dequantized - x).abs() / cluster_range
AxisError(x, bits, cluster_range) ==
    F32Div(F32AbsDiff(dequantize_unorm(quantize_unorm(x, bits), bits), x),
           cluster_range)

\* The inner loop: current_error = current_error.max(error) over the vertices,
\* from 0.0; f32::max passes over a NaN error.
CurrentError(positions, aabb, axis, bits, cluster_range, current) ==
    LET errors == {AxisError(Normalized(positions[j], aabb, axis), bits, cluster_range) :
                      j \in 1..Len(positions)}
        values == {current} \cup {e \in errors : ~IsNaN(e)}
    IN  CHOOSE v \in values : \A u \in values : ~F32Lt(v, u)

\* The comparison turned round.
AboveTolerance(current_error, error) == F32Lt(error, current_error)

\* current_error < settings.error
BelowTolerance(current_error, error) == F32Lt(current_error, error)

\* A range that starts at one bit.
BitsRangeFromOne == 1..(BitsRangeEnd - 1)

\* The widths the loop goes through: BITS_RANGE, a half-open range.
BitsRange == BitsRangeStart..(BitsRangeEnd - 1)

\* What the loop leaves in one axis's num_bits.  The assignment
\* `if current_error < settings.error && num_bits == 32 { num_bits = bits }`
\* happens once per axis, at the first width of the range whose error is
\* below the tolerance; the break, taken once all three axes are assigned,
\* skips only iterations that would assign nothing.
AxisBits(positions, aabb, axis, cluster_range, error) ==
    LET fits == {bits \in BitsRange :
                    BelowTolerance(
                        CurrentError(positions, aabb, axis, bits, cluster_range, F32Zero),
                        error)}
    IN  IF fits = {} THEN FullBits
        ELSE CHOOSE bits \in fits : \A other \in fits : bits <= other

get_bits_per_vertex(vertices, meshlet, stg) ==
    LET positions == MeshletPositions(vertices, meshlet)
        aabb == AABBFrom(positions)
        cluster_range == AABBRange(aabb)
    IN  [num_bits_x |-> AxisBits(positions, aabb, 1, cluster_range, stg.error),
         num_bits_y |-> AxisBits(positions, aabb, 2, cluster_range, stg.error),
         num_bits_z |-> AxisBits(positions, aabb, 3, cluster_range, stg.error)]

\* ((num_vertices as f32).log2().ceil()) as u32
RECURSIVE CeilLog2(_, _)
CeilLog2(n, k) == IF 2^k >= n THEN k ELSE CeilLog2(n, k + 1)
get_bits_per_index(num_vertices) == CeilLog2(num_vertices, 0)

(***************************************************************************)
(* meshopt::build_meshlets, the clustering collaborator.  Which triangles  *)
(* go together is its choice (`clustering`: the number of triangles of     *)
(* each meshlet, in index-buffer order); a meshlet lists its vertices in   *)
(* the order its triangles first use them and its triangles as indices     *)
(* into that list.                                                         *)
(***************************************************************************)
\* The largest count the header's 7-bit triangle field holds.
MaxTrianglesOfField == 2^7

MAX_VERTICES == 64
MAX_TRIANGLES == 124

\* One meshlet of the collaborator's result: the vertices of its triangles in
\* the order of first use, and each corner as its place in that list.
MeshletOf(indices) ==
    LET firsts == {j \in 1..Len(indices) : \A i \in 1..(j - 1) : indices[i] # indices[j]}
        Before(j) == Cardinality({i \in firsts : i < j})
    IN  [vertices |-> [k \in 1..Cardinality(firsts) |->
                          indices[CHOOSE j \in firsts : Before(j) = k - 1]],
         triangles |-> [t \in 1..Len(indices) |->
                          Before(CHOOSE j \in firsts : indices[j] = indices[t])]]

RECURSIVE build_meshlets(_, _)
build_meshlets(indices, sizes) ==
    IF Len(sizes) = 0 THEN <<>>
    ELSE <<MeshletOf(SubSeq(indices, 1, 3 * sizes[1]))>>
         \o build_meshlets(SubSeq(indices, 3 * sizes[1] + 1, Len(indices)), Tail(sizes))

RECURSIVE SumSeq(_)
SumSeq(seq) == IF Len(seq) = 0 THEN 0 ELSE seq[1] + SumSeq(Tail(seq))

\* The groupings of n triangles into consecutive meshlets.
RECURSIVE Compositions(_)
Compositions(n) ==
    IF n = 0 THEN {<<>>}
    ELSE UNION {{<<first>> \o rest : rest \in Compositions(n - first)} : first \in 1..n}

\* The groupings, among the candidates, that the collaborator may return when
\* called with these caps: it never puts more than max_vertices vertices or
\* max_triangles triangles in a meshlet.
Clusterings(candidates, indices, max_vertices, max_triangles) ==
    {c \in candidates :
        \A k \in 1..Len(c) :
            LET m == build_meshlets(indices, c)[k]
            IN  Len(m.vertices) <= max_vertices /\ Len(m.triangles) \div 3 <= max_triangles}

(***************************************************************************)
(* build_from_mesh (tort_asset_builder/src/mesh/simple_mesh.rs).           *)
(***************************************************************************)
NumBitsTex == 32
NumBitsNormal == 8

\* A start of the payload that counts the AABBs only.
InitialDataOffsetNoFields(n) == n * (AABBSizeBytes * 8)

\* meshlets.len() * (mem::size_of::<AABB>() * 8 + 78)
InitialDataOffset(n) == n * (AABBSizeBytes * 8 + 78)

\* The bits of one vertex record.
VertexBits(vertex_size) ==
    vertex_size.num_bits_x + vertex_size.num_bits_y + vertex_size.num_bits_z
    + NumBitsTex + NumBitsTex + NumBitsNormal * 3

\* What the header loop adds to data_offset for one meshlet.
PayloadBits(meshlet, size) ==
    VertexBits(size[1]) * Len(meshlet.vertices) + size[2] * Len(meshlet.triangles)

\* The map over the meshlets: (vertex_size, index_size, aabb).
MeshletSize(vertices, meshlet, stg) ==
    <<get_bits_per_vertex(vertices, meshlet, stg),
      get_bits_per_index(Len(meshlet.vertices)),
      AABBFrom(MeshletPositions(vertices, meshlet))>>

\* A header whose index width takes six bits instead of five.
HeaderFieldsWideIdx(meshlet, size, offset) ==
    << <<32, F32ToBits(size[3].min[1])>>, <<32, F32ToBits(size[3].min[2])>>,
       <<32, F32ToBits(size[3].min[3])>>, <<32, F32ToBits(size[3].max[1])>>,
       <<32, F32ToBits(size[3].max[2])>>, <<32, F32ToBits(size[3].max[3])>>,
       <<5, size[1].num_bits_x - 1>>, <<5, size[1].num_bits_y - 1>>,
       <<5, size[1].num_bits_z - 1>>,
       <<5, 31>>, <<5, 31>>, <<3, 7>>,
       <<6, size[2] - 1>>,
       <<6, Len(meshlet.vertices) - 1>>,
       <<7, (Len(meshlet.triangles) \div 3) - 1>>,
       <<32, offset>> >>

\* The header's writes, in order: <<bits, value>>.  index_size is at least 1
\* where this is used.
HeaderFields(meshlet, size, offset) ==
    << <<32, F32ToBits(size[3].min[1])>>, <<32, F32ToBits(size[3].min[2])>>,
       <<32, F32ToBits(size[3].min[3])>>, <<32, F32ToBits(size[3].max[1])>>,
       <<32, F32ToBits(size[3].max[2])>>, <<32, F32ToBits(size[3].max[3])>>,
       <<5, size[1].num_bits_x - 1>>, <<5, size[1].num_bits_y - 1>>,
       <<5, size[1].num_bits_z - 1>>,
       <<5, NumBitsTex - 1>>, <<5, NumBitsTex - 1>>,
       <<3, NumBitsNormal - 1>>,
       <<5, size[2] - 1>>,
       <<6, Len(meshlet.vertices) - 1>>,
       <<7, (Len(meshlet.triangles) \div 3) - 1>>,
       <<32, offset>> >>

\* The writes of one vertex record.
VertexFields(vertex, size) ==
    << <<size[1].num_bits_x,
         quantize_unorm(Normalized(vertex.position, size[3], 1), size[1].num_bits_x)>>,
       <<size[1].num_bits_y,
         quantize_unorm(Normalized(vertex.position, size[3], 2), size[1].num_bits_y)>>,
       <<size[1].num_bits_z,
         quantize_unorm(Normalized(vertex.position, size[3], 3), size[1].num_bits_z)>>,
       <<NumBitsTex, quantize_unorm(vertex.tex_coord[1], NumBitsTex)>>,
       <<NumBitsTex, quantize_unorm(vertex.tex_coord[2], NumBitsTex)>>,
       <<NumBitsNormal, quantize_unorm(vertex.normal[1], NumBitsNormal)>>,
       <<NumBitsNormal, quantize_unorm(vertex.normal[2], NumBitsNormal)>>,
       <<NumBitsNormal, quantize_unorm(vertex.normal[3], NumBitsNormal)>> >>

\* for index in meshlet.triangles { write(index_size, index) }
IndexFields(meshlet, size) ==
    [t \in 1..Len(meshlet.triangles) |-> <<size[2], meshlet.triangles[t]>>]

AnyWriteFails(fields) == \E f \in 1..Len(fields) : WriteFails(fields[f][1], fields[f][2])

\* The same writes as one append: value[t] at width bits, for each t in turn.
WriteEach(stream, bits, values) ==
    stream \o [p \in 1..(bits * Len(values)) |->
                  NatBits(values[((p - 1) \div bits) + 1], bits)[((p - 1) % bits) + 1]]

RECURSIVE WriteAll(_, _)
WriteAll(stream, fields) ==
    IF Len(fields) = 0 THEN stream
    ELSE WriteAll(BitWrite(stream, fields[1][1], fields[1][2]), Tail(fields))

\* A vertex record's quantize_unorm calls panic with overflow checks on: the
\* texture coordinates are always quantized to 32 bits.
VertexPanics(size) ==
    \/ ScalePanics(size[1].num_bits_x) \/ ScalePanics(size[1].num_bits_y)
    \/ ScalePanics(size[1].num_bits_z) \/ ScalePanics(NumBitsTex)
    \/ ScalePanics(NumBitsNormal)

(***************************************************************************)
(* SpecQ: the round trip of one value through quantize and dequantize.     *)
(***************************************************************************)
\* Inputs in [0, 1]: k / 2^UnitShift for k in 0 .. 2^UnitShift.
UnitShift == 2
UnitValues == {Canon(k, -UnitShift) : k \in 0..(2^UnitShift)}

\* The parts of the state a specification does not use.
BRIdle == br_pc = "idle" /\ br_fields = <<>> /\ br_first = 0 /\ br_out = <<>>
IOIdle == bit_writer = <<>> /\ bytes = <<>> /\ reader = 0
EncIdle ==
    /\ mesh = <<>> /\ settings = <<>> /\ clustering = <<>>
    /\ pc = "idle" /\ meshlets = <<>> /\ meshlet_sizes = <<>> /\ data_offset = 0
    /\ meshlet_index = 0 /\ vertex_index = 0 /\ hdr_at = <<>> /\ payload_at = <<>>
    /\ aabb_from_calls = <<>>
    /\ run = 0 /\ first_bytes = <<>>
DecIdle ==
    /\ dec_pc = "idle" /\ wgid = 0 /\ dec_meshlet = <<>> /\ dec_i = 0
    /\ out_codes = <<>> /\ out_positions = <<>> /\ out_indices = <<>>
WIdle == w_pc = "idle" /\ w_meshlet = <<>> /\ w_errors = <<>> /\ w_bits = <<>>
SIdle ==
    s_pc = "idle" /\ s_meshlet = <<>> /\ s_error = F32Zero /\ s_bits = 0 /\ s_num = <<>>
PCIdle ==
    /\ cache_pc = "idle" /\ assets = <<>> /\ shaders = <<>> /\ spirv_modules = <<>>
    /\ ready = <<>> /\ pipelines = <<>> /\ ids = <<>> /\ queued = <<>>
    /\ shader_to_pipeline = <<>> /\ modified_shaders = <<>> /\ tasks = <<>>
    /\ returned = <<>>
FIdle ==
    /\ frames = <<>> /\ frame_offset = 0 /\ frame_index = 0
    /\ r_pc = "idle" /\ r_windows = <<>> /\ r_window = 0
QIdle == q_pc = "idle" /\ q_v = F32Zero /\ q_bits = 0 /\ q_code = 0 /\ q_deq = F32Zero

QInit ==
    /\ overflow_checks \in BOOLEAN
    /\ BRIdle /\ IOIdle /\ EncIdle /\ DecIdle /\ WIdle /\ SIdle /\ PCIdle /\ FIdle
    /\ q_pc = "quantize"
    /\ q_v \in UnitValues
    /\ q_bits \in BitsRangeStart..FullBits
    /\ q_code = 0
    /\ q_deq = F32Zero

QQuantize ==
    /\ q_pc = "quantize"
    /\ IF overflow_checks /\ ScalePanics(q_bits)
       THEN q_pc' = "panic" /\ UNCHANGED q_code
       ELSE q_pc' = "dequantize" /\ q_code' = quantize_unorm(q_v, q_bits)
    /\ UNCHANGED <<overflow_checks, q_v, q_bits, q_deq, QRest>>

QDequantize ==
    /\ q_pc = "dequantize"
    /\ q_pc' = "done"
    /\ q_deq' = dequantize_unorm(q_code, q_bits)
    /\ UNCHANGED <<overflow_checks, q_v, q_bits, q_code, QRest>>

QNext == QQuantize \/ QDequantize

SpecQ == QInit /\ [][QNext]_vars

(***************************************************************************)
(* SpecBR: fields written with a little-endian BitWriter, byte-aligned and *)
(* padded as the encoder does, then read back with a BitReader             *)
(* (bit_reader.rs, tests::read_unchecked, for any widths and values).      *)
(***************************************************************************)
MaxFields == 3
BRWidths == {1, 13, 20, 31}
\* 2^(w-1), 2^w - 2 (the unit test's pattern) and 2^w - 1
BRValues(w) == {2^(w - 1), 2 * (2^(w - 1) - 1), 2 * (2^(w - 1) - 1) + 1}

RECURSIVE SumWidths(_)
SumWidths(fields) ==
    IF Len(fields) = 0 THEN 0 ELSE fields[1][1] + SumWidths(Tail(fields))

BRInit ==
    /\ overflow_checks = FALSE
    /\ QIdle /\ EncIdle /\ DecIdle /\ WIdle /\ SIdle /\ PCIdle /\ FIdle
    /\ br_pc = "write" /\ br_fields = <<>> /\ br_first = 0 /\ br_out = <<>>
    /\ IOIdle

\* writer.write(w, v)
BRWrite ==
    /\ br_pc = "write"
    /\ Len(br_fields) < MaxFields
    /\ \E w \in BRWidths : \E v \in BRValues(w) :
          /\ ~WriteFails(w, v)
          /\ bit_writer' = BitWrite(bit_writer, w, v)
          /\ br_fields' = Append(br_fields, <<w, v>>)
    /\ UNCHANGED <<overflow_checks, br_pc, br_first, br_out, bytes, reader, BRRest>>

\* writer.byte_align(); the bytes padded to whole words; BitReader::new(buffer,
\* offset) at the offset of one of the fields.
BRFinish ==
    /\ br_pc = "write"
    /\ Len(br_fields) > 0
    /\ bytes' = PadToWord(IntoBytes(ByteAlign(bit_writer)))
    /\ \E first \in 1..Len(br_fields) :
          /\ br_first' = first
          /\ reader' = SumWidths(SubSeq(br_fields, 1, first - 1))
    /\ br_pc' = "read"
    /\ UNCHANGED <<overflow_checks, br_fields, br_out, bit_writer, BRRest>>

\* reader.read_bits_unchecked(w) for the next field
BRRead ==
    /\ br_pc = "read"
    /\ br_first + Len(br_out) <= Len(br_fields)
    /\ LET w == br_fields[br_first + Len(br_out)][1]
           r == read_bits_unchecked(bytes, reader, w)
       IN  /\ br_out' = Append(br_out, r)
           /\ reader' = r[2]
    /\ UNCHANGED <<overflow_checks, br_pc, br_fields, br_first, bit_writer, bytes, BRRest>>

BRNext == BRWrite \/ BRFinish \/ BRRead

SpecBR == BRInit /\ [][BRNext]_vars

(***************************************************************************)
(* SpecBR32: as SpecBR, with the 32-bit fields of a header (the AABB       *)
(* floats and the offset) among narrower ones, read by the shader's        *)
(* BitReader (release build).                                              *)
(***************************************************************************)
\* A narrow width, to put the 32-bit fields off the word boundary, and 32.
BR32Widths == {13, WordBits}
\* Values of 32-bit fields: 1, 1.0f32.to_bits(), i32::MAX
BR32Values(w) == IF w = WordBits THEN {1, 1065353216, MaxI32} ELSE {2^(w - 1)}

\* writer.write(w, v)
BR32Write ==
    /\ br_pc = "write"
    /\ Len(br_fields) < MaxFields
    /\ \E w \in BR32Widths : \E v \in BR32Values(w) :
          /\ ~WriteFails(w, v)
          /\ bit_writer' = BitWrite(bit_writer, w, v)
          /\ br_fields' = Append(br_fields, <<w, v>>)
    /\ UNCHANGED <<overflow_checks, br_pc, br_first, br_out, bytes, reader, BRRest>>

BR32Next == BR32Write \/ BRFinish \/ BRRead

SpecBR32 == BRInit /\ [][BR32Next]_vars

(***************************************************************************)
(* Spec: build_from_mesh on a mesh, step by step, twice over.              *)
(***************************************************************************)
F(n) == F32FromInt(n)

\* Vertex::new(position, tex_coord, normal)
Vertex(position, tex_coord, normal) ==
    [position |-> position, tex_coord |-> tex_coord, normal |-> normal]

\* The vertex buffer of the meshes: positions on the integer grid 0..2, so
\* that an axis of a meshlet has extent 0 (a flat patch), 1 or 2, and a
\* normalized coordinate is 0, 1/2 or 1.
VertexBuffer ==
    << Vertex(<<F(0), F(0), F(0)>>, <<F32Zero, F32Zero>>, <<F32Zero, F32Zero, F32One>>),
       Vertex(<<F(2), F(0), F(0)>>, <<F32One, F32Zero>>, <<F32Zero, F32One, F32Zero>>),
       Vertex(<<F(1), F(2), F(0)>>, <<F32Half, F32One>>, <<F32Half, F32Half, F32Zero>>),
       Vertex(<<F(2), F(1), F(2)>>, <<F32One, F32One>>, <<F32One, F32Zero, F32Zero>>),
       Vertex(<<F(2), F(1), F(0)>>, <<F32Zero, F32Half>>, <<F32Zero, F32Zero, F32Half>>) >>

\* The triangles an index buffer is made of: two proper ones sharing an edge,
\* one with two corners on the same vertex, one with all three.
TrianglePool == {<<0, 1, 2>>, <<2, 1, 3>>, <<3, 4, 4>>, <<0, 0, 0>>}

MaxMeshTriangles == 2

RECURSIVE IndexBuffers(_)
IndexBuffers(n) ==
    IF n = 0 THEN {<<>>}
    ELSE {ib \o t : ib \in IndexBuffers(n - 1), t \in TrianglePool}

Meshes ==
    {[vertices |-> VertexBuffer, indices |-> ib] :
        ib \in UNION {IndexBuffers(n) : n \in 1..MaxMeshTriangles}}

\* settings.error: 0, 2^-26, 2^-8, 1
Tolerances == {F32Zero, <<1, -26>>, <<1, -8>>, F32One}

MaxRuns == 2

\* A writer that survives from the call before.
BitWriterKept == bit_writer

\* BitWriter::new(Cursor::new(Vec::new()))
BitWriterNew == <<>>

Init ==
    /\ overflow_checks \in BOOLEAN
    /\ QIdle /\ BRIdle /\ DecIdle /\ WIdle /\ SIdle /\ PCIdle /\ FIdle
    /\ mesh \in Meshes
    /\ settings \in [error : Tolerances]
    /\ clustering \in Clusterings(Compositions(Len(mesh.indices) \div 3), mesh.indices,
                                  MAX_VERTICES, MAX_TRIANGLES)
    /\ pc = "build_meshlets" /\ run = 1 /\ first_bytes = <<>>
    /\ meshlets = <<>> /\ meshlet_sizes = <<>> /\ data_offset = 0
    /\ meshlet_index = 0 /\ vertex_index = 0 /\ hdr_at = <<>> /\ payload_at = <<>>
    /\ aabb_from_calls = <<>>
    /\ bit_writer = <<>> /\ bytes = <<>> /\ reader = 0

\* meshopt::build_meshlets(..), BitWriter::new(..), let mut data_offset = ..
BuildMeshlets ==
    /\ pc = "build_meshlets"
    /\ meshlets' = build_meshlets(mesh.indices, clustering)
    /\ bit_writer' = BitWriterNew
    /\ data_offset' = InitialDataOffset(Len(meshlets'))
    /\ pc' = "sizes"
    /\ UNCHANGED <<overflow_checks, argvars, meshlet_sizes, meshlet_index, vertex_index,
                   hdr_at, payload_at, aabb_from_calls, run, first_bytes, bytes, reader, EncRest>>

\* The calls of AABB::from that the map over the meshlets makes for meshlet k:
\* the one inside get_bits_per_vertex, then the one of the closure itself.
AABBFromCalls(vertices, meshlet, k) ==
    << [meshlet |-> k, by |-> "get_bits_per_vertex",
        aabb |-> AABBFrom(MeshletPositions(vertices, meshlet))],
       [meshlet |-> k, by |-> "build_from_mesh",
        aabb |-> AABBFrom(MeshletPositions(vertices, meshlet))] >>

\* let meshlet_sizes = meshlets.iter().map(..).collect()
ComputeSizes ==
    /\ pc = "sizes"
    /\ meshlet_sizes' = [k \in 1..Len(meshlets) |->
                            MeshletSize(mesh.vertices, meshlets[k], settings)]
    /\ meshlet_index' = 0
    /\ pc' = IF Len(meshlets) = 0 THEN "align" ELSE "headers"
    /\ aabb_from_calls' = [i \in 1..(2 * Len(meshlets)) |->
                              AABBFromCalls(mesh.vertices, meshlets[(i + 1) \div 2],
                                            (i + 1) \div 2)[((i - 1) % 2) + 1]]
    /\ UNCHANGED <<overflow_checks, argvars, meshlets, data_offset, vertex_index,
                   hdr_at, payload_at, run, first_bytes, iovars, EncRest>>

\* One iteration of the header loop.  `*index_size - 1` with index_size = 0
\* panics with overflow checks on and wraps to u32::MAX without, which
\* write(5, ..) refuses.
WriteHeader ==
    /\ pc = "headers"
    /\ LET meshlet == meshlets[meshlet_index + 1]
           size == meshlet_sizes[meshlet_index + 1]
           fields == HeaderFields(meshlet, size, data_offset)
       IN  IF size[2] = 0
           THEN /\ pc' = IF overflow_checks THEN "panic" ELSE "err"
                /\ UNCHANGED <<bit_writer, data_offset, meshlet_index, hdr_at>>
           ELSE IF AnyWriteFails(fields)
           THEN /\ pc' = "err"
                /\ UNCHANGED <<bit_writer, data_offset, meshlet_index, hdr_at>>
           ELSE /\ bit_writer' = WriteAll(bit_writer, fields)
                /\ hdr_at' = Append(hdr_at, Len(bit_writer))
                /\ data_offset' = data_offset + PayloadBits(meshlet, size)
                /\ IF meshlet_index + 1 < Len(meshlets)
                   THEN meshlet_index' = meshlet_index + 1 /\ pc' = "headers"
                   ELSE meshlet_index' = 0 /\ pc' = "payload"
    /\ vertex_index' = 0
    /\ UNCHANGED <<overflow_checks, argvars, meshlets, meshlet_sizes, payload_at, aabb_from_calls,
                   run, first_bytes, bytes, reader, EncRest>>

\* One iteration of the vertex loop of the payload pass.
WriteVertex ==
    /\ pc = "payload"
    /\ vertex_index < Len(meshlets[meshlet_index + 1].vertices)
    /\ LET meshlet == meshlets[meshlet_index + 1]
           size == meshlet_sizes[meshlet_index + 1]
           vertex == mesh.vertices[meshlet.vertices[vertex_index + 1] + 1]
           fields == VertexFields(vertex, size)
       IN  IF overflow_checks /\ VertexPanics(size)
           THEN pc' = "panic" /\ UNCHANGED <<bit_writer, vertex_index, payload_at>>
           ELSE IF AnyWriteFails(fields)
           THEN pc' = "err" /\ UNCHANGED <<bit_writer, vertex_index, payload_at>>
           ELSE /\ bit_writer' = WriteAll(bit_writer, fields)
                /\ payload_at' = IF vertex_index = 0
                                 THEN Append(payload_at, Len(bit_writer))
                                 ELSE payload_at
                /\ vertex_index' = vertex_index + 1
                /\ pc' = "payload"
    /\ UNCHANGED <<overflow_checks, argvars, meshlets, meshlet_sizes, data_offset,
                   meshlet_index, hdr_at, aabb_from_calls, run, first_bytes, bytes, reader, EncRest>>

\* The index loop of one meshlet, and on to the next meshlet.
WriteIndices ==
    /\ pc = "payload"
    /\ vertex_index = Len(meshlets[meshlet_index + 1].vertices)
    /\ LET meshlet == meshlets[meshlet_index + 1]
           fields == IndexFields(meshlet, meshlet_sizes[meshlet_index + 1])
       IN  IF AnyWriteFails(fields)
           THEN pc' = "err" /\ UNCHANGED <<bit_writer, meshlet_index, vertex_index>>
           ELSE /\ bit_writer' = WriteEach(bit_writer, meshlet_sizes[meshlet_index + 1][2],
                                           meshlet.triangles)
                /\ vertex_index' = 0
                /\ IF meshlet_index + 1 < Len(meshlets)
                   THEN meshlet_index' = meshlet_index + 1 /\ pc' = "payload"
                   ELSE meshlet_index' = 0 /\ pc' = "align"
    /\ UNCHANGED <<overflow_checks, argvars, meshlets, meshlet_sizes, data_offset,
                   hdr_at, payload_at, aabb_from_calls, run, first_bytes, bytes, reader, EncRest>>

\* bit_writer.byte_align(); into_inner(); pad to 4 bytes; Ok(bytes)
Finish ==
    /\ pc = "align"
    /\ bytes' = PadToWord(IntoBytes(ByteAlign(bit_writer)))
    /\ pc' = "done"
    /\ UNCHANGED <<overflow_checks, argvars, meshlets, meshlet_sizes, data_offset,
                   meshlet_index, vertex_index, hdr_at, payload_at, aabb_from_calls, run, first_bytes,
                   bit_writer, reader, EncRest>>

\* build_from_mesh is called again with the same mesh and settings: its
\* locals are gone, the caller still holds the bytes it got.
CallAgain ==
    /\ pc = "done" /\ dec_pc = "idle"
    /\ run < MaxRuns
    /\ run' = run + 1
    /\ first_bytes' = bytes
    /\ pc' = "build_meshlets"
    /\ meshlets' = <<>> /\ meshlet_sizes' = <<>>
    /\ meshlet_index' = 0 /\ vertex_index' = 0 /\ hdr_at' = <<>> /\ payload_at' = <<>>
    /\ aabb_from_calls' = <<>>
    /\ UNCHANGED <<overflow_checks, argvars, data_offset, iovars, EncRest>>


(***************************************************************************)
(* pass_mesh (tort_shaders/src/geometry/mod.rs), one work group.  The      *)
(* shader crate is built by SpirvBuilder in release mode: no overflow      *)
(* checks.  Every lane runs the same loops from i = 0.                     *)
(***************************************************************************)
\* The bits of one header: wgid.x * 270
HeaderStride == 270

\* output_vertices = 64, output_primitives_ext = 124
OutputVertices == 64
OutputPrimitives == 124

\* The widths Meshlet::from_bits reads, in order.
FromBitsWidths == <<32, 32, 32, 32, 32, 32, 5, 5, 5, 5, 5, 3, 5, 6, 7, 32>>

\* Meshlet::from_bits(reader): the fields and the reader's offset afterwards.
from_bits(buffer, offset) ==
    LET r1 == read_bits_unchecked(buffer, offset, 32)
        r2 == read_bits_unchecked(buffer, r1[2], 32)
        r3 == read_bits_unchecked(buffer, r2[2], 32)
        r4 == read_bits_unchecked(buffer, r3[2], 32)
        r5 == read_bits_unchecked(buffer, r4[2], 32)
        r6 == read_bits_unchecked(buffer, r5[2], 32)
        r7 == read_bits_unchecked(buffer, r6[2], 5)
        r8 == read_bits_unchecked(buffer, r7[2], 5)
        r9 == read_bits_unchecked(buffer, r8[2], 5)
        r10 == read_bits_unchecked(buffer, r9[2], 5)
        r11 == read_bits_unchecked(buffer, r10[2], 5)
        r12 == read_bits_unchecked(buffer, r11[2], 3)
        r13 == read_bits_unchecked(buffer, r12[2], 5)
        r14 == read_bits_unchecked(buffer, r13[2], 6)
        r15 == read_bits_unchecked(buffer, r14[2], 7)
        r16 == read_bits_unchecked(buffer, r15[2], 32)
    IN  [aabb |-> [min |-> <<F32FromBits(U32Nat(r1[1])), F32FromBits(U32Nat(r2[1])),
                             F32FromBits(U32Nat(r3[1]))>>,
                   max |-> <<F32FromBits(U32Nat(r4[1])), F32FromBits(U32Nat(r5[1])),
                             F32FromBits(U32Nat(r6[1]))>>],
         num_bits_x |-> U32Nat(r7[1]) + 1,
         num_bits_y |-> U32Nat(r8[1]) + 1,
         num_bits_z |-> U32Nat(r9[1]) + 1,
         num_bits_tex_x |-> U32Nat(r10[1]) + 1,
         num_bits_tex_y |-> U32Nat(r11[1]) + 1,
         num_bits_normal |-> U32Nat(r12[1]) + 1,
         num_bits_idx |-> U32Nat(r13[1]) + 1,
         num_vertices |-> U32Nat(r14[1]) + 1,
         num_primitives |-> U32Nat(r15[1]) + 1,
         data_offset |-> U32Nat(r16[1]),
         reader |-> r16[2]]

\* let num_bits_vertex = ..
NumBitsVertex(meshlet) ==
    meshlet.num_bits_x + meshlet.num_bits_y + meshlet.num_bits_z
    + meshlet.num_bits_tex_x + meshlet.num_bits_tex_y + meshlet.num_bits_normal * 3

\* let index_offset = ..
IndexOffset(meshlet) ==
    meshlet.data_offset + meshlet.num_vertices * NumBitsVertex(meshlet)

\* The bits from..from+count-1 lie in the words of the buffer.
SpanInBounds(buffer, from, count) == from + count <= WordBits * NumWords(buffer)

\* The body of the vertex loop for index i: the eight codes read, and x, y, z
\* before the view-projection matrix is applied.
DecodeVertex(buffer, meshlet, i) ==
    LET start == meshlet.data_offset + i * NumBitsVertex(meshlet)
        qx == read_bits_unchecked(buffer, start, meshlet.num_bits_x)
        qy == read_bits_unchecked(buffer, qx[2], meshlet.num_bits_y)
        qz == read_bits_unchecked(buffer, qy[2], meshlet.num_bits_z)
        tx == read_bits_unchecked(buffer, qz[2], meshlet.num_bits_tex_x)
        ty == read_bits_unchecked(buffer, tx[2], meshlet.num_bits_tex_y)
        nx == read_bits_unchecked(buffer, ty[2], meshlet.num_bits_normal)
        ny == read_bits_unchecked(buffer, nx[2], meshlet.num_bits_normal)
        nz == read_bits_unchecked(buffer, ny[2], meshlet.num_bits_normal)
        Coord(q, n, axis) ==
            F32Add(meshlet.aabb.min[axis],
                   F32Mul(dequantize_unorm(U32Nat(q[1]), n),
                          F32Sub(meshlet.aabb.max[axis], meshlet.aabb.min[axis])))
    IN  [codes |-> <<U32Nat(qx[1]), U32Nat(qy[1]), U32Nat(qz[1]), U32Nat(tx[1]),
                     U32Nat(ty[1]), U32Nat(nx[1]), U32Nat(ny[1]), U32Nat(nz[1])>>,
         position |-> <<Coord(qx, meshlet.num_bits_x, 1), Coord(qy, meshlet.num_bits_y, 2),
                        Coord(qz, meshlet.num_bits_z, 3)>>]

\* The body of the primitive loop for index i: UVec3::new(a, b, c)
DecodePrimitive(buffer, meshlet, i) ==
    LET a == read_bits_unchecked(buffer, IndexOffset(meshlet) + i * 3 * meshlet.num_bits_idx,
                                 meshlet.num_bits_idx)
        b == read_bits_unchecked(buffer, a[2], meshlet.num_bits_idx)
        c == read_bits_unchecked(buffer, b[2], meshlet.num_bits_idx)
    IN  <<U32Nat(a[1]), U32Nat(b[1]), U32Nat(c[1])>>

\* A stride one short of the number of lanes.
LaneStrideShort == 2^5 - 1

\* The lanes' stride through both loops: i += 32
LaneStride == 32

\* BitReader::new(mesh_data, wgid.x * 270); Meshlet::from_bits; the group is
\* one of those dispatched, one per meshlet.
DecHeader ==
    /\ pc = "done" /\ dec_pc = "idle"
    /\ \E g \in 0..(Len(meshlets) - 1) :
          /\ wgid' = g
          /\ IF SpanInBounds(bytes, g * HeaderStride, HeaderStride)
             THEN /\ dec_meshlet' = from_bits(bytes, g * HeaderStride)
                  /\ dec_pc' = "vertices"
             ELSE /\ dec_pc' = "undefined"
                  /\ UNCHANGED dec_meshlet
    /\ dec_i' = 0
    /\ UNCHANGED <<out_codes, out_positions, out_indices, DecRest>>

\* One iteration of `while i < meshlet.num_vertices`.
DecVertex ==
    /\ dec_pc = "vertices"
    /\ IF ~SpanInBounds(bytes, dec_meshlet.data_offset + dec_i * NumBitsVertex(dec_meshlet),
                        NumBitsVertex(dec_meshlet))
       THEN /\ dec_pc' = "undefined"
            /\ UNCHANGED <<dec_i, out_codes, out_positions>>
       ELSE LET v == DecodeVertex(bytes, dec_meshlet, dec_i)
            IN  /\ out_codes' = Append(out_codes, <<dec_i, v.codes>>)
                /\ out_positions' = Append(out_positions, <<dec_i, v.position>>)
                /\ IF dec_i + LaneStride < dec_meshlet.num_vertices
                   THEN dec_i' = dec_i + LaneStride /\ dec_pc' = "vertices"
                   ELSE dec_i' = 0 /\ dec_pc' = "primitives"
    /\ UNCHANGED <<wgid, dec_meshlet, out_indices, DecRest>>

\* One iteration of `while i < meshlet.num_primitives`.
DecPrimitive ==
    /\ dec_pc = "primitives"
    /\ IF ~SpanInBounds(bytes,
                        IndexOffset(dec_meshlet) + dec_i * 3 * dec_meshlet.num_bits_idx,
                        3 * dec_meshlet.num_bits_idx)
       THEN /\ dec_pc' = "undefined"
            /\ UNCHANGED <<dec_i, out_indices>>
       ELSE /\ out_indices' = Append(out_indices,
                                     <<dec_i, DecodePrimitive(bytes, dec_meshlet, dec_i)>>)
            /\ IF dec_i + LaneStride < dec_meshlet.num_primitives
               THEN dec_i' = dec_i + LaneStride /\ dec_pc' = "primitives"
               ELSE dec_i' = 0 /\ dec_pc' = "done"
    /\ UNCHANGED <<wgid, dec_meshlet, out_codes, out_positions, DecRest>>

Next ==
    \/ BuildMeshlets \/ ComputeSizes \/ WriteHeader \/ WriteVertex \/ WriteIndices
    \/ Finish \/ CallAgain
    \/ DecHeader \/ DecVertex \/ DecPrimitive

Spec == Init /\ [][Next]_vars

(***************************************************************************)
(* SpecW: get_bits_per_vertex on one meshlet at two tolerances.            *)
(***************************************************************************)
\* The meshlets of the meshes above when all triangles go together.
WMeshlets == {build_meshlets(m.indices, <<Len(m.indices) \div 3>>)[1] : m \in Meshes}

\* 0, 2^-26, 2^-12, 2^-8, 2^-3, 1
WTolerances == Tolerances \cup {<<1, -12>>, <<1, -3>>}

WInit ==
    /\ overflow_checks = FALSE
    /\ QIdle /\ BRIdle /\ IOIdle /\ EncIdle /\ DecIdle /\ SIdle /\ PCIdle /\ FIdle
    /\ w_pc = "first"
    /\ w_meshlet \in WMeshlets
    /\ w_errors \in {e \in WTolerances \X WTolerances : F32Le(e[1], e[2])}
    /\ w_bits = <<>>

\* get_bits_per_vertex(vertices, meshlet, settings) at the tolerance e1
WFirst ==
    /\ w_pc = "first"
    /\ w_bits' = <<get_bits_per_vertex(VertexBuffer, w_meshlet, [error |-> w_errors[1]])>>
    /\ w_pc' = "second"
    /\ UNCHANGED <<w_meshlet, w_errors, WRest>>

\* and at the tolerance e2
WSecond ==
    /\ w_pc = "second"
    /\ w_bits' = Append(w_bits,
                        get_bits_per_vertex(VertexBuffer, w_meshlet, [error |-> w_errors[2]]))
    /\ w_pc' = "done"
    /\ UNCHANGED <<w_meshlet, w_errors, WRest>>

WNext == WFirst \/ WSecond

SpecW == WInit /\ [][WNext]_vars


(***************************************************************************)
(* SpecS: the loop of get_bits_per_vertex, one iteration of                *)
(* `for bits in BITS_RANGE` at a time.                                     *)
(***************************************************************************)
\* An assignment without the test that the axis still has no width.
TakeLatest(num_bits, bits, current_error, error) ==
    IF BelowTolerance(current_error, error) THEN bits ELSE num_bits

\* if current_error < settings.error && num_bits == 32 { num_bits = bits }
KeepChosen(num_bits, bits, current_error, error) ==
    IF BelowTolerance(current_error, error) /\ num_bits = FullBits THEN bits ELSE num_bits

SInit ==
    /\ overflow_checks = FALSE
    /\ QIdle /\ BRIdle /\ IOIdle /\ EncIdle /\ DecIdle /\ WIdle /\ PCIdle /\ FIdle
    /\ s_pc = "loop"
    /\ s_meshlet \in WMeshlets
    /\ s_error \in WTolerances
    /\ s_bits = BitsRangeStart
    /\ s_num = [num_bits_x |-> FullBits, num_bits_y |-> FullBits, num_bits_z |-> FullBits]

\* One iteration for bits = s_bits: the three current errors, the three
\* assignments, the break; the loop ends after the last width of the range.
SIter ==
    /\ s_pc = "loop"
    /\ LET positions == MeshletPositions(VertexBuffer, s_meshlet)
           aabb == AABBFrom(positions)
           cluster_range == AABBRange(aabb)
           current_error_x == CurrentError(positions, aabb, 1, s_bits, cluster_range, F32Zero)
           current_error_y == CurrentError(positions, aabb, 2, s_bits, cluster_range, F32Zero)
           current_error_z == CurrentError(positions, aabb, 3, s_bits, cluster_range, F32Zero)
           num == [num_bits_x |-> KeepChosen(s_num.num_bits_x, s_bits, current_error_x, s_error),
                   num_bits_y |-> KeepChosen(s_num.num_bits_y, s_bits, current_error_y, s_error),
                   num_bits_z |-> KeepChosen(s_num.num_bits_z, s_bits, current_error_z, s_error)]
       IN  /\ s_num' = num
           /\ IF \/ (num.num_bits_x # FullBits /\ num.num_bits_y # FullBits
                     /\ num.num_bits_z # FullBits)
                 \/ s_bits + 1 >= BitsRangeEnd
              THEN s_pc' = "returned" /\ s_bits' = s_bits
              ELSE s_pc' = "loop" /\ s_bits' = s_bits + 1
    /\ UNCHANGED <<s_meshlet, s_error, SRest>>

SNext == SIter

SpecS == SInit /\ [][SNext]_vars


(***************************************************************************)
(* SpecPart: build_from_mesh and pass_mesh on meshes large enough for the  *)
(* caps of a meshlet to matter (release build).                            *)
(***************************************************************************)
\* A strip: triangle t on the vertices t/2, t/2 + 1, t/2 + 2, so that
\* StripLength triangles use 64 vertices; the triangles after the strip go
\* over the first three vertices again.
StripLength == 124
StripIndices(n) ==
    [p \in 1..(3 * n) |->
        IF (p - 1) \div 3 < StripLength
        THEN (((p - 1) \div 3) \div 2) + ((p - 1) % 3)
        ELSE (p - 1) % 3]

\* Triangles without a common vertex: n of them use 3 * n vertices.
LooseIndices(n) == [p \in 1..(3 * n) |-> p - 1]

\* 124 and 125 triangles on 64 vertices; 22 triangles on 66 vertices.
PartIndexBuffers == {StripIndices(124), StripIndices(125), LooseIndices(22)}

PartVertices == 66
PartVertexBuffer ==
    [j \in 1..PartVertices |-> VertexBuffer[((j - 1) % Len(VertexBuffer)) + 1]]

\* The groupings looked at: all triangles together, or split in two after
\* the first, before the last, or in the middle.
PartGroupings(n) ==
    {<<n>>} \cup {<<a, n - a>> : a \in {1, n \div 2, n - 1}}

PartInit ==
    /\ overflow_checks = FALSE
    /\ QIdle /\ BRIdle /\ DecIdle /\ WIdle /\ SIdle /\ PCIdle /\ FIdle
    /\ mesh \in {[vertices |-> PartVertexBuffer, indices |-> ib] : ib \in PartIndexBuffers}
    /\ settings = [error |-> F32One]
    /\ clustering \in Clusterings(PartGroupings(Len(mesh.indices) \div 3), mesh.indices,
                                  MAX_VERTICES, MAX_TRIANGLES)
    /\ pc = "build_meshlets" /\ run = 1 /\ first_bytes = <<>>
    /\ meshlets = <<>> /\ meshlet_sizes = <<>> /\ data_offset = 0
    /\ meshlet_index = 0 /\ vertex_index = 0 /\ hdr_at = <<>> /\ payload_at = <<>>
    /\ aabb_from_calls = <<>>
    /\ bit_writer = <<>> /\ bytes = <<>> /\ reader = 0

PartNext ==
    \/ BuildMeshlets \/ ComputeSizes \/ WriteHeader \/ WriteVertex \/ WriteIndices
    \/ Finish
    \/ DecHeader \/ DecVertex \/ DecPrimitive

SpecPart == PartInit /\ [][PartNext]_vars


(***************************************************************************)
(* SpecCap: build_from_mesh and pass_mesh when the collaborator does not   *)
(* keep to the caps it was called with (release build).                    *)
(***************************************************************************)
\* 125, 128 and 129 triangles on 64 vertices; 22 triangles on 66 vertices.
CapIndexBuffers ==
    {StripIndices(125), StripIndices(128), StripIndices(129), LooseIndices(22)}

\* As PartInit, but any of the groupings may come back from build_meshlets.
CapInit ==
    /\ overflow_checks = FALSE
    /\ QIdle /\ BRIdle /\ DecIdle /\ WIdle /\ SIdle /\ PCIdle /\ FIdle
    /\ mesh \in {[vertices |-> PartVertexBuffer, indices |-> ib] : ib \in CapIndexBuffers}
    /\ settings = [error |-> F32One]
    /\ clustering \in PartGroupings(Len(mesh.indices) \div 3)
    /\ pc = "build_meshlets" /\ run = 1 /\ first_bytes = <<>>
    /\ meshlets = <<>> /\ meshlet_sizes = <<>> /\ data_offset = 0
    /\ meshlet_index = 0 /\ vertex_index = 0 /\ hdr_at = <<>> /\ payload_at = <<>>
    /\ aabb_from_calls = <<>>
    /\ bit_writer = <<>> /\ bytes = <<>> /\ reader = 0

SpecCap == CapInit /\ [][PartNext]_vars


(***************************************************************************)
(* The pipeline cache (tort_render, pipeline_cache.rs).  The systems       *)
(* extract_shaders_system and process_pipelines_system hold the cache      *)
(* exclusively (ResMut), so each of their runs is a step; the build tasks  *)
(* run on the task pool at the same time and share Inner with them:        *)
(* spirv_modules and the two ready queues.  A task takes the lock of       *)
(* spirv_modules twice in get_shader_module, once to look a module up and  *)
(* once to insert the one it made, and anything may happen in between.     *)
(* A shader's source is stood for by its version number, a shader module   *)
(* by the version it was made from, a pipeline by its id, its description  *)
(* and the modules it was made with.                                       *)
(***************************************************************************)
\* Pipelines<GraphicsPipeline> and Pipelines<ComputePipeline>
Kinds == {"graphics", "compute"}

\* Handle<Shader>
Handles == {"vs", "fs"}

\* The values Uuid::new_v4() returns.
Uuids == {"u1", "u2"}

\* P::Desc, as the shader handles of its stages: desc.stages for a graphics
\* pipeline, the one desc.stage for a compute pipeline.
Descs(kind) == IF kind = "graphics" THEN {<<"vs">>, <<"vs", "fs">>} ELSE {<<"vs">>}

\* How many asset events extract_shaders_system sees, all together.
MaxEvents == 3
\* The number of events so far: each Created and Modified gave its shader the
\* next version.
NumEvents ==
    assets["vs"].version + assets["vs"].removals
    + assets["fs"].version + assets["fs"].removals
\* How many calls of queue_graphics_pipeline / queue_compute_pipeline.
MaxQueueCalls == 2

\* HashMap::new(), insert, remove
EmptyMap == [k \in {} |-> k]
Insert(map, key, value) ==
    [k \in (DOMAIN map) \cup {key} |-> IF k = key THEN value ELSE map[k]]
Remove(map, key) == [k \in (DOMAIN map) \ {key} |-> map[k]]

\* The elements of a Vec.
Range(seq) == {seq[i] : i \in 1..Len(seq)}

\* PipelineCache::new(device); no shader asset exists yet.
PCInit ==
    /\ overflow_checks = FALSE
    /\ QIdle /\ BRIdle /\ IOIdle /\ EncIdle /\ DecIdle /\ WIdle /\ SIdle /\ FIdle
    /\ cache_pc = "running"
    /\ assets = [h \in Handles |-> [version |-> 0, present |-> FALSE, removals |-> 0]]
    /\ shaders = EmptyMap
    /\ spirv_modules = EmptyMap
    /\ ready = [k \in Kinds |-> <<>>]
    /\ pipelines = [k \in Kinds |-> EmptyMap]
    /\ ids = [k \in Kinds |-> EmptyMap]
    /\ queued = [k \in Kinds |-> <<>>]
    /\ shader_to_pipeline = [k \in Kinds |-> EmptyMap]
    /\ modified_shaders = <<>>
    /\ tasks = <<>>
    /\ returned = <<>>

\* An entry that is given the new id whether or not there is one.
EntryAlwaysInsert(id_map, desc, uuid) == uuid

\* self.ids.entry_ref(desc).or_insert_with(|| ..): the id the description
\* has, or else the new one.
EntryOrInsert(id_map, desc, uuid) ==
    IF desc \in DOMAIN id_map THEN id_map[desc] ELSE uuid

\* Pipelines::queue(desc) when Uuid::new_v4() returns uuid: the id of the
\* description if it has one; else a new id, drawn again while a built
\* pipeline has it, and the description goes to the queued list.
\* `returned` keeps what each call returned, whether the description was new
\* and which ids had a built pipeline at the call.
Queue(kind, desc, uuid) ==
    /\ cache_pc = "running"
    /\ Len(returned) < MaxQueueCalls
    /\ LET is_new == desc \notin DOMAIN ids[kind]
           id == EntryOrInsert(ids[kind], desc, uuid)
       IN  /\ is_new => uuid \notin DOMAIN pipelines[kind]
           /\ ids' = [ids EXCEPT ![kind] = Insert(@, desc, id)]
           /\ queued' = IF is_new THEN [queued EXCEPT ![kind] = Append(@, desc)]
                         ELSE queued
           /\ returned' = Append(returned,
                                 [kind |-> kind, desc |-> desc, id |-> id,
                                  is_new |-> is_new, built |-> DOMAIN pipelines[kind]])
    /\ UNCHANGED <<cache_pc, assets, shaders, spirv_modules, ready, pipelines,
                   shader_to_pipeline, modified_shaders, tasks, PCRest>>

\* The ids handed out so far.
IdsInUse == UNION {{ids[k][d] : d \in DOMAIN ids[k]} : k \in Kinds}

\* queue_graphics_pipeline / queue_compute_pipeline, the generator returning
\* a value it has not returned before.
QueueFresh ==
    \E kind \in Kinds : \E desc \in Descs(kind) : \E uuid \in Uuids \ IdsInUse :
        Queue(kind, desc, uuid)

\* The same with any value from the generator.
QueueAny ==
    \E kind \in Kinds : \E desc \in Descs(kind) : \E uuid \in Uuids :
        Queue(kind, desc, uuid)

\* Pipelines::get(id)
None == <<>>
Some(value) == <<value>>
Get(kind, id) ==
    IF id \in DOMAIN pipelines[kind] THEN Some(pipelines[kind][id]) ELSE None

\* extract_shaders_system on AssetEvent::Created { handle }: the asset is
\* there, create_shader(handle, shader).
ShaderCreated ==
    /\ cache_pc = "running"
    /\ \E h \in Handles :
          /\ ~assets[h].present
          /\ NumEvents < MaxEvents
          /\ assets' = [assets EXCEPT ![h].version = @ + 1, ![h].present = TRUE]
          /\ shaders' = Insert(shaders, h, assets[h].version + 1)
    /\ UNCHANGED <<cache_pc, spirv_modules, ready, pipelines, ids, queued,
                   shader_to_pipeline, modified_shaders, tasks, returned, PCRest>>

\* extract_shaders_system on AssetEvent::Modified { handle }:
\* modify_shader(handle, shader) replaces the entry if there is one and
\* pushes the handle to modified_shaders.
ShaderModified ==
    /\ cache_pc = "running"
    /\ \E h \in Handles :
          /\ assets[h].present
          /\ NumEvents < MaxEvents
          /\ assets' = [assets EXCEPT ![h].version = @ + 1]
          /\ shaders' = IF h \in DOMAIN shaders
                        THEN Insert(shaders, h, assets[h].version + 1)
                        ELSE shaders
          /\ modified_shaders' = Append(modified_shaders, h)
    /\ UNCHANGED <<cache_pc, spirv_modules, ready, pipelines, ids, queued,
                   shader_to_pipeline, tasks, returned, PCRest>>

\* extract_shaders_system on AssetEvent::Removed { handle }: remove_shader
ShaderRemoved ==
    /\ cache_pc = "running"
    /\ \E h \in Handles :
          /\ assets[h].present
          /\ NumEvents < MaxEvents
          /\ assets' = [assets EXCEPT ![h].present = FALSE, ![h].removals = @ + 1]
          /\ shaders' = Remove(shaders, h)
    /\ UNCHANGED <<cache_pc, spirv_modules, ready, pipelines, ids, queued,
                   shader_to_pipeline, modified_shaders, tasks, returned, PCRest>>

\* while let Ok(pipeline) = ready.pop(): the pipeline is stored under its id,
\* over the one that was there.
RECURSIVE PopReady(_, _)
PopReady(built, popped) ==
    IF popped = <<>> THEN built
    ELSE PopReady(Insert(built, popped[1].id, popped[1]), Tail(popped))

\* The loop over modified_shaders indexes pipelines[id] for each id under a
\* modified shader; indexing a HashMap with an absent key panics.
LookupPanics(built, by_shader, modified) ==
    \E m \in 1..Len(modified) :
        /\ modified[m] \in DOMAIN by_shader
        /\ \E id \in by_shader[modified[m]] : id \notin DOMAIN built

\* The orders a HashSet's iterator may yield its elements in.
Orderings(set) ==
    {order \in [1..Cardinality(set) -> set] :
        \A i, j \in 1..Cardinality(set) : i # j => order[i] # order[j]}

\* The descriptions the loop over modified_shaders pushes to the queued
\* list, in each order it may push them in.
RECURSIVE Requeued(_, _, _)
Requeued(built, by_shader, modified) ==
    IF modified = <<>> THEN {<<>>}
    ELSE LET under == IF modified[1] \in DOMAIN by_shader
                      THEN by_shader[modified[1]] ELSE {}
         IN  {[i \in 1..Len(order) |-> built[order[i]].desc] \o rest :
                 order \in Orderings(under),
                 rest \in Requeued(built, by_shader, Tail(modified))}

\* The closure of queued.retain: every stage's shader is in `shaders`.
AllShadersKnown(desc, known) == \A s \in 1..Len(desc) : desc[s] \in DOMAIN known

\* A description stays queued whether or not its shaders are known.
RetainAll(desc, known) == TRUE

\* `return true`: the description stays in the queued list.
Retain(desc, known) == ~AllShadersKnown(desc, known)

\* shader_to_pipeline.entry(stage.shader).or_insert_with(HashSet::new).insert(id)
\* for each stage of each description that leaves the queue.
RECURSIVE Register(_, _, _)
Register(by_shader, descs, id_of) ==
    IF descs = <<>> THEN by_shader
    ELSE LET desc == descs[1]
             stage_shaders == Range(desc)
             next == [h \in (DOMAIN by_shader) \cup stage_shaders |->
                         (IF h \in DOMAIN by_shader THEN by_shader[h] ELSE {})
                         \cup (IF h \in stage_shaders THEN {id_of[desc]} ELSE {})]
         IN  Register(next, Tail(descs), id_of)

\* AsyncComputeTaskPool::get().spawn(async move { .. }): the task owns the
\* description, its id and the clones of the shaders as they are now; it has
\* no module yet and is not in the middle of making one.
Task(kind, desc, id_of, known) ==
    [kind |-> kind, id |-> id_of[desc], desc |-> desc,
     shaders |-> [s \in 1..Len(desc) |-> known[desc[s]]],
     modules |-> <<>>, missed |-> FALSE]

\* The tasks queued.retain spawns, in the order of the list.
Spawned(kind, list, id_of, known) ==
    LET leaving == SelectSeq(list, LAMBDA desc : ~Retain(desc, known))
    IN  [i \in 1..Len(leaving) |-> Task(kind, leaving[i], id_of, known)]

\* process_pipelines_system: the modules of the modified shaders are dropped
\* from spirv_modules, then process_graphics_pipelines and
\* process_compute_pipelines each pop their ready queue, queue the pipelines
\* of the modified shaders again and spawn a task for every queued
\* description whose shaders are all known; modified_shaders is cleared.
\* A lookup of an id that has no pipeline panics and ends the render world.
ProcessPipelines ==
    /\ cache_pc = "running"
    /\ LET built == [k \in Kinds |-> PopReady(pipelines[k], ready[k])]
       IN  IF \E k \in Kinds :
                 LookupPanics(built[k], shader_to_pipeline[k], modified_shaders)
           THEN /\ cache_pc' = "panic"
                /\ UNCHANGED <<spirv_modules, ready, pipelines, queued,
                               shader_to_pipeline, modified_shaders, tasks>>
           ELSE \E again_g \in Requeued(built["graphics"], shader_to_pipeline["graphics"],
                                        modified_shaders) :
                \E again_c \in Requeued(built["compute"], shader_to_pipeline["compute"],
                                        modified_shaders) :
                   LET list == [k \in Kinds |->
                                   queued[k] \o (IF k = "graphics" THEN again_g
                                                 ELSE again_c)]
                   IN  /\ spirv_modules' =
                              [h \in (DOMAIN spirv_modules) \ Range(modified_shaders) |->
                                  spirv_modules[h]]
                       /\ pipelines' = built
                       /\ ready' = [k \in Kinds |-> <<>>]
                       /\ queued' = [k \in Kinds |->
                                        SelectSeq(list[k],
                                                  LAMBDA desc : Retain(desc, shaders))]
                       /\ shader_to_pipeline' =
                              [k \in Kinds |->
                                  Register(shader_to_pipeline[k],
                                           SelectSeq(list[k],
                                                     LAMBDA desc : ~Retain(desc, shaders)),
                                           ids[k])]
                       /\ tasks' = tasks \o Spawned("graphics", list["graphics"],
                                                    ids["graphics"], shaders)
                                         \o Spawned("compute", list["compute"],
                                                    ids["compute"], shaders)
                       /\ modified_shaders' = <<>>
                       /\ UNCHANGED cache_pc
    /\ UNCHANGED <<assets, shaders, ids, returned, PCRest>>

\* The stage a task is at: the one after the modules it has.
StageOf(task) == Len(task.modules) + 1

\* get_shader_module, first half: spirv_modules.lock().get(..).cloned()
TaskLookup ==
    \E t \in 1..Len(tasks) :
        LET task == tasks[t]
            h == task.desc[StageOf(task)]
        IN  /\ ~task.missed
            /\ StageOf(task) <= Len(task.desc)
            /\ tasks' = [tasks EXCEPT ![t] =
                            IF h \in DOMAIN spirv_modules
                            THEN [task EXCEPT !.modules = Append(@, spirv_modules[h])]
                            ELSE [task EXCEPT !.missed = TRUE]]
            /\ UNCHANGED <<cache_pc, assets, shaders, spirv_modules, ready, pipelines, ids,
                           queued, shader_to_pipeline, modified_shaders, returned, PCRest>>

\* get_shader_module, second half: ShaderModule::new from the task's clone
\* of the shader, spirv_modules.lock().insert(..)
TaskInsert ==
    \E t \in 1..Len(tasks) :
        LET task == tasks[t]
            h == task.desc[StageOf(task)]
            made == task.shaders[StageOf(task)]
        IN  /\ task.missed
            /\ spirv_modules' = Insert(spirv_modules, h, made)
            /\ tasks' = [tasks EXCEPT ![t] =
                            [task EXCEPT !.modules = Append(@, made), !.missed = FALSE]]
            /\ UNCHANGED <<cache_pc, assets, shaders, ready, pipelines, ids, queued,
                           shader_to_pipeline, modified_shaders, returned, PCRest>>

\* GraphicsPipeline::new / ComputePipeline::new with the modules, and the
\* push to the ready queue; the task ends.
TaskPush ==
    \E t \in 1..Len(tasks) :
        LET task == tasks[t]
        IN  /\ StageOf(task) > Len(task.desc)
            /\ ready' = [ready EXCEPT ![task.kind] =
                            Append(@, [id |-> task.id, desc |-> task.desc,
                                       modules |-> task.modules])]
            /\ tasks' = [i \in 1..(Len(tasks) - 1) |->
                            IF i < t THEN tasks[i] ELSE tasks[i + 1]]
            /\ UNCHANGED <<cache_pc, assets, shaders, spirv_modules, pipelines, ids, queued,
                           shader_to_pipeline, modified_shaders, returned, PCRest>>

TaskStep == TaskLookup \/ TaskInsert \/ TaskPush

PCNext ==
    \/ QueueFresh \/ ShaderCreated \/ ShaderModified \/ ShaderRemoved
    \/ ProcessPipelines \/ TaskLookup \/ TaskInsert \/ TaskPush

SpecPC == PCInit /\ [][PCNext]_vars

\* SpecPCFair: the same steps, when the task pool runs every task to its end
\* and process_pipelines_system is run again and again.
SpecPCFair ==
    PCInit /\ [][PCNext]_vars /\ WF_vars(TaskStep) /\ WF_vars(ProcessPipelines)

\* SpecIds: the same steps, with nothing assumed about the values of
\* Uuid::new_v4().
IdsNext ==
    \/ QueueAny \/ ShaderCreated \/ ShaderModified \/ ShaderRemoved
    \/ ProcessPipelines \/ TaskLookup \/ TaskInsert \/ TaskPush

SpecIds == PCInit /\ [][IdsNext]_vars

(***************************************************************************)
(* FrameCtx and render_system (tort_render, renderer/frame_ctx.rs and      *)
(* renderer/mod.rs).  render_system blocks in fence.wait_for(u64::MAX), so *)
(* the work on one window is a step that needs the fence signaled; the     *)
(* device signals the fence of a submission some time after it was made.   *)
(***************************************************************************)
\* FrameCtx::new(device, num_frames) for num_frames in 1..MaxFrames
MaxFrames == 3
\* How many times render_system runs.
MaxFrameIndex == 5
\* The windows of one run, and the command batches the render graph reports.
MaxWindows == 2
MaxBatches == 2

\* Frame::new: FenceDesc { signaled: true, .. }
FrameNew == [fence |-> "signaled"]

\* One extracted window: minimized (physical_width == 0 || physical_height
\* == 0) or not, and batch_layout.num_cmd_batches for it.
Windows ==
    {[minimized |-> TRUE, num_cmd_batches |-> 0]}
    \cup {[minimized |-> FALSE, num_cmd_batches |-> n] : n \in 0..MaxBatches}

WindowLists == UNION {[1..n -> Windows] : n \in 0..MaxWindows}

FInit ==
    /\ overflow_checks = FALSE
    /\ QIdle /\ BRIdle /\ IOIdle /\ EncIdle /\ DecIdle /\ WIdle /\ SIdle /\ PCIdle
    /\ \E num_frames \in 1..MaxFrames : frames = [i \in 1..num_frames |-> FrameNew]
    /\ frame_offset = 0
    /\ frame_index = 0
    /\ r_pc = "idle" /\ r_windows = <<>> /\ r_window = 0

\* frame_index % frames.len(), with the index before the increment
FrameOffsetOfLast(index, num_frames) == (index - 1) % num_frames

\* self.frame_index % self.frames.len()
FrameOffsetOf(index, num_frames) == index % num_frames

\* FrameCtx::device_completed_frame_index
device_completed_frame_index ==
    IF frame_index >= Len(frames) THEN Some(frame_index - Len(frames)) ELSE None

\* The fence of the frame after the batch loop that follows fence.reset():
\* batch i is submitted with the frame's fence if i == num_cmd_batches - 1
\* and with a null fence otherwise.
FenceAfterBatches(num_cmd_batches) ==
    IF \E i \in 0..(num_cmd_batches - 1) : i = num_cmd_batches - 1
    THEN "pending" ELSE "unsignaled"

\* render_system is called: let frame = frame_ctx.current(), and the windows
\* it will go through.
RenderBegin ==
    /\ r_pc = "idle"
    /\ frame_index < MaxFrameIndex
    /\ r_windows' \in WindowLists
    /\ r_window' = 1
    /\ r_pc' = "windows"
    /\ UNCHANGED <<frames, frame_offset, frame_index, FRest>>

\* One iteration of the loop over the windows: a minimized window is passed
\* over; for another the fence of the current frame is waited for and reset,
\* the batches are recorded and submitted and the image is presented.
RenderWindow ==
    /\ r_pc = "windows"
    /\ r_window <= Len(r_windows)
    /\ LET window == r_windows[r_window]
       IN  IF window.minimized
           THEN UNCHANGED frames
           ELSE /\ frames[frame_offset + 1].fence = "signaled"
                /\ frames' = [frames EXCEPT ![frame_offset + 1].fence =
                                 FenceAfterBatches(window.num_cmd_batches)]
    /\ r_window' = r_window + 1
    /\ UNCHANGED <<frame_offset, frame_index, r_pc, r_windows, FRest>>

\* After the loop: frame_ctx.increment(), and render_system returns.
RenderEnd ==
    /\ r_pc = "windows"
    /\ r_window > Len(r_windows)
    /\ frame_index' = frame_index + 1
    /\ frame_offset' = FrameOffsetOf(frame_index', Len(frames))
    /\ r_pc' = "idle"
    /\ r_windows' = <<>>
    /\ r_window' = 0
    /\ UNCHANGED <<frames, FRest>>

\* The device finishes a submission and signals the fence it was given.
FenceSignal ==
    /\ \E slot \in 1..Len(frames) :
          /\ frames[slot].fence = "pending"
          /\ frames' = [frames EXCEPT ![slot].fence = "signaled"]
    /\ UNCHANGED <<frame_offset, frame_index, r_pc, r_windows, r_window, FRest>>

FNext == RenderBegin \/ RenderWindow \/ RenderEnd \/ FenceSignal

SpecFrame == FInit /\ [][FNext]_vars


(***************************************************************************)
(* SpecHdr: pass_mesh on a buffer whose one header holds any vertex count  *)
(* and any triangle count its fields can hold.                             *)
(***************************************************************************)
\* The counts the 6-bit and the 7-bit field are given: the least and the
\* greatest, and the ones next to a multiple of the lanes' stride and to the
\* size of the output arrays.
HdrVertexCounts == {1, 32, 33, 64}
HdrPrimitiveCounts == {1, 32, 33, 96, 97, 124, 125, 128}
\* The index widths of 2 and of 64 vertices.
HdrIndexWidths == {1, 6}

\* The bits of a vertex record at 4 bits for each position axis.
HdrVertexBits == 3 * BitsRangeStart + NumBitsTex + NumBitsTex + NumBitsNormal * 3

\* One header as build_from_mesh writes it, for a box at the origin, and
\* a payload of zero bits of the length the header tells.
HdrBuffer(num_vertices, num_primitives, num_bits_idx) ==
    LET fields == << <<32, 0>>, <<32, 0>>, <<32, 0>>, <<32, 0>>, <<32, 0>>, <<32, 0>>,
                     <<5, BitsRangeStart - 1>>, <<5, BitsRangeStart - 1>>,
                     <<5, BitsRangeStart - 1>>,
                     <<5, NumBitsTex - 1>>, <<5, NumBitsTex - 1>>,
                     <<3, NumBitsNormal - 1>>,
                     <<5, num_bits_idx - 1>>,
                     <<6, num_vertices - 1>>,
                     <<7, num_primitives - 1>>,
                     <<32, HeaderStride>> >>
        payload == HdrVertexBits * num_vertices + 3 * num_bits_idx * num_primitives
    IN  PadToWord(IntoBytes(ByteAlign(WriteAll(<<>>, fields) \o [p \in 1..payload |-> 0])))

HdrInit ==
    /\ overflow_checks = FALSE
    /\ QIdle /\ BRIdle /\ EncIdle /\ DecIdle /\ WIdle /\ SIdle /\ PCIdle /\ FIdle
    /\ bit_writer = <<>> /\ reader = 0
    /\ bytes \in {HdrBuffer(v, p, w) :
                     v \in HdrVertexCounts, p \in HdrPrimitiveCounts, w \in HdrIndexWidths}

\* BitReader::new(mesh_data, wgid.x * 270) and Meshlet::from_bits for work
\* group 0.
HdrDecHeader ==
    /\ pc = "idle" /\ dec_pc = "idle"
    /\ bytes # <<>>
    /\ wgid' = 0
    /\ dec_meshlet' = from_bits(bytes, 0)
    /\ dec_pc' = "vertices"
    /\ dec_i' = 0
    /\ UNCHANGED <<out_codes, out_positions, out_indices, DecRest>>

HdrNext == HdrDecHeader \/ DecVertex \/ DecPrimitive

SpecHdr == HdrInit /\ [][HdrNext]_vars


(***************************************************************************)
(* The claims.                                                             *)
(***************************************************************************)
\* |d - v| <= 1 / (2^b - 1), exactly, for finite d and v with v in [0, 1]:
\* the distance is D * 2^-s for integers D and s <= 30.
WithinUnormStep(d, v, b) ==
    /\ IsFinite(d)
    /\ LET e == IF d[2] < v[2] THEN d[2] ELSE v[2]
           D == d[1] * 2^(d[2] - e) - v[1] * 2^(v[2] - e)
           dist == IF D < 0 THEN -D ELSE D
       IN  IF b >= 31 THEN dist = 0
           ELSE dist <= (2^(-e)) \div (2^b - 1)

\* C3: for every width b in 4..32 and every v in [0, 1], quantize_unorm then
\* dequantize_unorm at width b returns a value within 1 / (2^b - 1) of v.
C3_RoundTripWithinStep ==
    /\ q_pc # "panic"
    /\ q_pc = "done" => WithinUnormStep(q_deq, q_v, q_bits)

\* C4: the i-th read_bits_unchecked(w_i) of a reader started at the first
\* field's offset returns the value written for that field, and leaves the
\* reader's offset exactly w_i bits further on.
C4_ReadsReturnFields ==
    \A k \in 1..Len(br_out) :
        LET field == br_fields[br_first + k - 1]
            before == SumWidths(SubSeq(br_fields, 1, br_first + k - 2))
        IN  /\ br_out[k][1] = U32(field[2])
            /\ br_out[k][2] = before + field[1]
            /\ k = Len(br_out) => reader = br_out[k][2]

\* C4's case: a field of the widest width, lying across a word boundary, has
\* been read after an earlier read.
C4_StraddlingFieldRead ==
    \E k \in 2..Len(br_out) :
        LET field == br_fields[br_first + k - 1]
            before == SumWidths(SubSeq(br_fields, 1, br_first + k - 2))
        IN  (before % WordBits) + field[1] > WordBits /\ field[1] = 31

\* Bit p (from 1) of a byte buffer, least significant bit of a byte first.
BitOf(bs, p) == (bs[((p - 1) \div 8) + 1] \div 2^((p - 1) % 8)) % 2

\* The codes and the local indices the encoder writes for a meshlet.
WrittenCodes(k, i) ==
    LET fields == VertexFields(mesh.vertices[meshlets[k].vertices[i + 1] + 1],
                               meshlet_sizes[k])
    IN  [f \in 1..Len(fields) |-> fields[f][2]]
WrittenTriangle(k, t) ==
    <<meshlets[k].triangles[3 * t + 1], meshlets[k].triangles[3 * t + 2],
      meshlets[k].triangles[3 * t + 3]>>

\* C1: the offset the decoder takes from header k is where meshlet k's first
\* vertex record was written, and what the decoder reads from there, for a
\* vertex i and a triangle t, are the codes and local indices the encoder
\* wrote for meshlet k.
C1_DecoderReadsWhatWasWritten ==
    dec_pc = "done" =>
        /\ dec_meshlet.data_offset = payload_at[wgid + 1]
        /\ \A j \in 1..Len(out_codes) :
              out_codes[j][2] = WrittenCodes(wgid + 1, out_codes[j][1])
        /\ \A j \in 1..Len(out_indices) :
              out_indices[j][2] = WrittenTriangle(wgid + 1, out_indices[j][1])

\* C2: one triangle on three distinct vertices at tolerance 0.0 encodes to one
\* header with position widths 32, 32, 32 and one payload block, and decodes
\* to the original positions and to the indices (0, 1, 2).
C2_SingleTriangleDecodesExactly ==
    (mesh.indices = <<0, 1, 2>> /\ settings.error = F32Zero) =>
        /\ pc \notin {"panic", "err"}
        /\ pc = "done" =>
              /\ Len(hdr_at) = 1 /\ Len(payload_at) = 1
              /\ meshlet_sizes[1][1] =
                    [num_bits_x |-> 32, num_bits_y |-> 32, num_bits_z |-> 32]
        /\ dec_pc = "done" =>
              /\ \A j \in 1..Len(out_positions) :
                    out_positions[j][2] =
                        mesh.vertices[out_positions[j][1] + 1].position
              /\ \A j \in 1..Len(out_indices) : out_indices[j][2] = <<0, 1, 2>>

\* C5: every header written is 270 bits in the order and widths from_bits
\* reads, header k starts at bit 270 * k, and the decoder of group k, starting
\* at 270 * k, ends 270 bits later with the widths and counts of header k.
C5_HeadersAtStride ==
    /\ \A k \in 1..Len(hdr_at) :
          LET fields == HeaderFields(meshlets[k], meshlet_sizes[k], 0)
          IN  /\ hdr_at[k] = HeaderStride * (k - 1)
              /\ [f \in 1..Len(fields) |-> fields[f][1]] = FromBitsWidths
              /\ SumWidths(fields) = HeaderStride
    /\ Len(payload_at) > 0 => payload_at[1] = HeaderStride * Len(meshlets)
    /\ dec_pc \in {"vertices", "primitives", "done"} =>
          LET meshlet == meshlets[wgid + 1]
              size == meshlet_sizes[wgid + 1]
          IN  /\ dec_meshlet.reader = hdr_at[wgid + 1] + HeaderStride
              /\ dec_meshlet.num_bits_x = size[1].num_bits_x
              /\ dec_meshlet.num_bits_y = size[1].num_bits_y
              /\ dec_meshlet.num_bits_z = size[1].num_bits_z
              /\ dec_meshlet.num_bits_tex_x = NumBitsTex
              /\ dec_meshlet.num_bits_tex_y = NumBitsTex
              /\ dec_meshlet.num_bits_normal = NumBitsNormal
              /\ dec_meshlet.num_bits_idx = size[2]
              /\ dec_meshlet.num_vertices = Len(meshlet.vertices)
              /\ dec_meshlet.num_primitives = Len(meshlet.triangles) \div 3

\* C5's case: the second header of a two-meshlet buffer has been decoded.
C5_SecondHeaderDecoded ==
    dec_pc = "done" /\ wgid = 1 /\ Len(meshlets) = 2 /\ hdr_at[2] = HeaderStride

C9_PaddedOnceAtEnd ==
    pc = "done" =>
        LET total == Len(bit_writer)
            N == Len(meshlets)
        IN  /\ Len(bytes) % 4 = 0
            /\ 8 * Len(bytes) >= total
            /\ 8 * Len(bytes) - total < 32
            /\ \A p \in 1..(8 * Len(bytes)) :
                  BitOf(bytes, p) = IF p <= total THEN bit_writer[p] ELSE 0
            /\ \A k \in 1..N : hdr_at[k] = HeaderStride * (k - 1)
            /\ N > 0 => payload_at[1] = HeaderStride * N
            /\ \A k \in 1..N :
                  payload_at[k] + PayloadBits(meshlets[k], meshlet_sizes[k])
                      = IF k < N THEN payload_at[k + 1] ELSE total

\* C9's case: a buffer of two meshlets whose second payload starts off a byte
\* boundary and whose bits do not fill the last word.
C9_PaddedTwoMeshlets ==
    /\ pc = "done" /\ Len(meshlets) = 2
    /\ payload_at[2] % 8 # 0
    /\ Len(bit_writer) % 32 # 0

\* C10: each position width get_bits_per_vertex returns is in 4..32.
C10_WidthsInRange ==
    \A k \in 1..Len(meshlet_sizes) :
        /\ meshlet_sizes[k][1].num_bits_x \in 4..32
        /\ meshlet_sizes[k][1].num_bits_y \in 4..32
        /\ meshlet_sizes[k][1].num_bits_z \in 4..32

\* C10's case: the search has returned, for one meshlet, the smallest width
\* on one axis, the fallback 32 on another, and a width between on a third.
C10_WidthsSpread ==
    \E k \in 1..Len(meshlet_sizes) :
        LET w == {meshlet_sizes[k][1].num_bits_x, meshlet_sizes[k][1].num_bits_y,
                  meshlet_sizes[k][1].num_bits_z}
        IN  4 \in w /\ (\E b \in w : 4 < b /\ b < 32)

\* C7: for one meshlet and tolerances e1 <= e2, the width chosen with e2 is at
\* most the width chosen with e1, on each of x, y and z.
C7_WidthsMonotone ==
    w_pc = "done" =>
        /\ w_bits[2].num_bits_x <= w_bits[1].num_bits_x
        /\ w_bits[2].num_bits_y <= w_bits[1].num_bits_y
        /\ w_bits[2].num_bits_z <= w_bits[1].num_bits_z

\* C7's case: a larger tolerance has brought a narrower width on some axis,
\* between two widths the search found.
C7_WidthsNarrowed ==
    /\ w_pc = "done"
    /\ F32Lt(w_errors[1], w_errors[2])
    /\ w_bits[2].num_bits_x < w_bits[1].num_bits_x
    /\ w_bits[1].num_bits_x < 32

\* C6: every meshlet build_from_mesh encodes has 1..64 vertices and 1..124
\* triangles, and the counts the decoder takes from its header are within the
\* 64 positions and 124 primitives of the output arrays.
C6_CountsWithinCaps ==
    /\ \A k \in 1..Len(hdr_at) :
          /\ Len(meshlets[k].vertices) \in 1..64
          /\ Len(meshlets[k].triangles) \div 3 \in 1..124
    /\ dec_pc \in {"vertices", "primitives", "done"} =>
          /\ dec_meshlet.num_vertices \in 1..OutputVertices
          /\ dec_meshlet.num_primitives \in 1..OutputPrimitives

\* C6's case: a meshlet at both caps has been encoded and decoded.
C6_FullMeshletDecoded ==
    /\ dec_pc = "done"
    /\ Len(meshlets[wgid + 1].vertices) = 64
    /\ Len(meshlets[wgid + 1].triangles) = 3 * 124
    /\ dec_meshlet.num_vertices = 64 /\ dec_meshlet.num_primitives = 124

\* The 32-bit offset field of header k, as it stands in the stream.
OffsetField(k) == U32Nat(SubSeq(bit_writer, hdr_at[k] + 239, hdr_at[k] + HeaderStride))

\* The payload bits of the meshlets before the k-th.
RECURSIVE PayloadBitsBefore(_)
PayloadBitsBefore(k) ==
    IF k <= 1 THEN 0
    ELSE PayloadBitsBefore(k - 1) + PayloadBits(meshlets[k - 1], meshlet_sizes[k - 1])

\* C11, as the code has it: the offset field of header k is the bit position
\* at which meshlet k's payload begins, the bits of all headers plus the
\* payload bits of the meshlets before it.
C11_OffsetIsBitPosition ==
    \A k \in 1..Len(hdr_at) :
        /\ OffsetField(k) = HeaderStride * Len(meshlets) + PayloadBitsBefore(k)
        /\ k <= Len(payload_at) => payload_at[k] = OffsetField(k)

\* C11's case: the second payload of a two-meshlet buffer has been started,
\* at the bit its header names, which is not on a byte boundary.
C11_SecondOffsetOffByte ==
    /\ Len(payload_at) = 2
    /\ OffsetField(2) = payload_at[2]
    /\ OffsetField(2) > OffsetField(1)
    /\ payload_at[2] % 8 # 0

\* C11 as stated: the offset field is a byte position, and the payload it
\* names begins on a byte boundary.
C11_OffsetIsBytePosition ==
    \A k \in 1..Len(payload_at) :
        /\ payload_at[k] % 8 = 0
        /\ 8 * OffsetField(k) = payload_at[k]

\* C12: when build_meshlets returns a meshlet of more than 64 vertices or more
\* than 124 triangles, build_from_mesh does not return a buffer: no header of
\* a returned buffer holds such a count.
C12_OutOfCapNeverReturned ==
    pc = "done" =>
        /\ \A k \in 1..Len(meshlets) :
              /\ Len(meshlets[k].vertices) <= MAX_VERTICES
              /\ Len(meshlets[k].triangles) \div 3 <= MAX_TRIANGLES
        /\ dec_pc \in {"vertices", "primitives", "done"} =>
              /\ dec_meshlet.num_vertices <= MAX_VERTICES
              /\ dec_meshlet.num_primitives <= MAX_TRIANGLES

\* C13: for every meshlet, flat ones included, each normalized coordinate
\* (p - min) / (max - min) and each error / cluster_range the code computes is
\* a finite number: no division by a zero extent or a zero range takes place.
C13_ZeroExtentGuarded ==
    \A k \in 1..Len(meshlet_sizes) :
        LET positions == MeshletPositions(mesh.vertices, meshlets[k])
            aabb == meshlet_sizes[k][3]
        IN  \A j \in 1..Len(positions), axis \in 1..3 :
                LET x == Normalized(positions[j], aabb, axis)
                IN  /\ IsFinite(x)
                    /\ IsFinite(AxisError(x, BitsRangeStart, AABBRange(aabb)))

\* C14: when a group has finished, every vertex slot below the vertex count
\* and every primitive slot below the triangle count of its header has been
\* written.  pass_mesh reads no lane index, so each of the 32 lanes writes
\* the slots the one lane followed here writes.
C14_AllSlotsWritten ==
    dec_pc = "done" =>
        /\ {out_positions[j][1] : j \in 1..Len(out_positions)}
               = 0..(dec_meshlet.num_vertices - 1)
        /\ {out_indices[j][1] : j \in 1..Len(out_indices)}
               = 0..(dec_meshlet.num_primitives - 1)

\* C15: a group reads its own header, at 270 bits times its index, and its
\* vertex and index reads lie in the payload that header was written for:
\* from the bit the encoder started meshlet k's payload at, up to its end.
C15_ReadsOwnHeaderAndPayload ==
    dec_pc \in {"vertices", "primitives", "done"} =>
        LET k == wgid + 1
            first == payload_at[k]
            last == payload_at[k] + PayloadBits(meshlets[k], meshlet_sizes[k])
        IN  /\ dec_meshlet.reader - HeaderStride = hdr_at[k]
            /\ \A j \in 1..Len(out_codes) :
                  LET start == dec_meshlet.data_offset
                               + out_codes[j][1] * NumBitsVertex(dec_meshlet)
                  IN  first <= start /\ start + NumBitsVertex(dec_meshlet) <= last
            /\ \A j \in 1..Len(out_indices) :
                  LET start == IndexOffset(dec_meshlet)
                               + out_indices[j][1] * 3 * dec_meshlet.num_bits_idx
                  IN  first <= start /\ start + 3 * dec_meshlet.num_bits_idx <= last

\* The worst round-trip error of a meshlet's vertices on an axis at a width,
\* over the cluster range, as the search computes it.
WorstError(meshlet, axis, bits) ==
    LET positions == MeshletPositions(VertexBuffer, meshlet)
        aabb == AABBFrom(positions)
    IN  CurrentError(positions, aabb, axis, bits, AABBRange(aabb), F32Zero)

\* The smallest of the widths whose worst error is below the tolerance, 32 if
\* there is none.
SmallestFitting(meshlet, axis, widths, error) ==
    LET fits == {b \in widths : F32Lt(WorstError(meshlet, axis, b), error)}
    IN  IF fits = {} THEN 32 ELSE CHOOSE b \in fits : \A other \in fits : b <= other

\* C16: at every point of the search each axis holds, on its own, the
\* smallest width tried so far whose worst error is strictly below the
\* tolerance, or 32 if none was; the search returns after the width 30 or
\* once all three axes have a width, so that what it returns is, per axis,
\* the smallest such width in 4..30, or 32.
C16_SmallestFittingWidth ==
    s_pc \in {"loop", "returned"} =>
        LET tried == IF s_pc = "loop" THEN 4..(s_bits - 1) ELSE 4..s_bits
            chosen == <<s_num.num_bits_x, s_num.num_bits_y, s_num.num_bits_z>>
        IN  /\ \A axis \in 1..3 :
                  chosen[axis] = SmallestFitting(s_meshlet, axis, tried, s_error)
            /\ s_pc = "returned" =>
                  \/ s_bits = 30
                  \/ \A axis \in 1..3 : chosen[axis] # 32
            /\ s_pc = "returned" =>
                  \A axis \in 1..3 :
                      chosen[axis] = SmallestFitting(s_meshlet, axis, 4..30, s_error)

\* C16's case: the search has returned two different widths below 32, chosen
\* in different iterations.
C16_WidthsChosenApart ==
    /\ s_pc = "returned"
    /\ \E a, b \in {s_num.num_bits_x, s_num.num_bits_y, s_num.num_bits_z} :
          a < b /\ b < 32

\* C17: a read_bits_unchecked(32), at a word boundary or across one, returns
\* the 32-bit value written at the reader's offset and moves the offset on
\* by 32 bits.
C17_FullWordReadsReturnValue ==
    \A k \in 1..Len(br_out) :
        LET field == br_fields[br_first + k - 1]
            before == SumWidths(SubSeq(br_fields, 1, br_first + k - 2))
        IN  field[1] = WordBits =>
                /\ br_out[k][1] = U32(field[2])
                /\ br_out[k][2] = before + WordBits

\* C18: for each width a header can hold (4..30 and 32), the scale
\* (1i32 << n) - 1i32 is computed without overflow, is positive and is
\* 2^n - 1, and dequantize_unorm returns the code divided by it.
C18_ScaleIsPowerMinusOne ==
    (q_pc \in {"dequantize", "done", "panic"} /\ q_bits \in (4..30) \cup {32}) =>
        /\ q_pc # "panic"
        /\ UnormScaleI32(q_bits) > 0
        /\ UnormScaleI32(q_bits) = 2^q_bits - 1
        /\ q_pc = "done" =>
              q_deq = F32Div(F32FromInt(q_code), F32FromInt(2^q_bits - 1))

\* w is ceil(log2(n)): the least w with 2^w >= n.
IsCeilLog2(w, n) == 2^w >= n /\ (w > 0 => 2^(w - 1) < n)

\* The w bits of the stream that start after bit p, as a number.
StreamField(p, w) == SumSeq([i \in 1..w |-> bit_writer[p + i] * 2^(i - 1)])

\* C19: get_bits_per_index(n) is ceil(log2(n)) for n in 1..64; for a meshlet
\* of n vertices every local index is below 2 to that width; and the build
\* writes each index of each triangle at that width, so that the bits of the
\* stream hold it: it does not stop at the header of a meshlet because of
\* its index width.
C19_IndicesWrittenAtWidth ==
    /\ \A n \in 1..MAX_VERTICES : IsCeilLog2(get_bits_per_index(n), n)
    /\ \A k \in 1..Len(meshlet_sizes) :
          LET meshlet == meshlets[k]
              w == meshlet_sizes[k][2]
              n == Len(meshlet.vertices)
              at == payload_at[k] + VertexBits(meshlet_sizes[k][1]) * n
          IN  /\ w = get_bits_per_index(n)
              /\ \A t \in 1..Len(meshlet.triangles) : meshlet.triangles[t] < 2^w
              /\ ~(pc \in {"err", "panic"} /\ Len(hdr_at) = k - 1 /\ w = 0)
              /\ (pc \in {"align", "done"} \/ (pc = "payload" /\ meshlet_index >= k)) =>
                    \A t \in 1..Len(meshlet.triangles) :
                        StreamField(at + (t - 1) * w, w) = meshlet.triangles[t]

\* C20: the range the search divides an error by is the largest of the three
\* extents of the meshlet's AABB: it is one of them and none is larger.
C20_RangeIsLargestExtent ==
    \A k \in 1..Len(meshlet_sizes) :
        LET aabb == meshlet_sizes[k][3]
            extent == [axis \in 1..3 |-> F32Sub(aabb.max[axis], aabb.min[axis])]
            cluster_range == AABBRange(aabb)
        IN  /\ \E axis \in 1..3 : cluster_range = extent[axis]
            /\ \A axis \in 1..3 : F32Le(extent[axis], cluster_range)


\* C21: for every meshlet within the caps, each of the nine values the header
\* loop writes into the narrow fields (three position widths, two texcoord
\* widths, the normal width and the index width, each minus one, then the
\* vertex count and the triangle count, each minus one) is a non-negative
\* integer below 2 to the width of its field, so that no subtraction of one
\* goes below zero.
C21_HeaderValuesFit ==
    \A k \in 1..Len(meshlet_sizes) :
        LET meshlet == meshlets[k]
            fields == HeaderFields(meshlet, meshlet_sizes[k], 0)
        IN  (Len(meshlet.vertices) \in 1..MAX_VERTICES
             /\ (Len(meshlet.triangles) \div 3) \in 1..MAX_TRIANGLES) =>
                \A f \in 7..15 : fields[f][2] \in 0..(2^(fields[f][1]) - 1)

\* C22: process_graphics_pipelines and process_compute_pipelines never index
\* the pipelines map with an id it does not hold: whenever the pipelines of a
\* modified shader are queued again, every id registered under that shader
\* has a pipeline, so that process_pipelines_system never panics there.
C22_LookupFindsPipeline == cache_pc # "panic"

TasksFor(list, kind, desc) ==
    {t \in 1..Len(list) : list[t].kind = kind /\ list[t].desc = desc}

\* The ids registered in shader_to_pipeline.
Registered(kind) ==
    UNION {shader_to_pipeline[kind][h] : h \in DOMAIN shader_to_pipeline[kind]}

C26_ResetFenceIsSubmitted ==
    \A slot \in 1..Len(frames) : frames[slot].fence # "unsignaled"

\* C27: frame_offset is frame_index mod the number of frames, so current()
\* indexes an existing frame; device_completed_frame_index() is None while
\* frame_index is below the number of frames and Some(frame_index - N)
\* from then on; and every call of increment, and nothing else, moves
\* frame_index, by exactly one.
C27_OffsetFollowsIndex ==
    /\ [](/\ Len(frames) >= 1
          /\ frame_offset = frame_index % Len(frames)
          /\ frame_offset + 1 \in DOMAIN frames
          /\ frame_index < Len(frames) => device_completed_frame_index = None
          /\ frame_index >= Len(frames) =>
                device_completed_frame_index = Some(frame_index - Len(frames)))
    /\ [][/\ RenderEnd => frame_index' = frame_index + 1
          /\ ~RenderEnd => frame_index' = frame_index]_vars

\* increment has run past the last of three frames and further: the fifth
\* call leaves the context on the third frame, two frames behind completed.
C27_WrappedAround ==
    /\ Len(frames) = 3
    /\ frame_index = 5
    /\ frame_offset = 2
    /\ device_completed_frame_index = Some(2)

\* C28: whatever vertex count (1..64) and triangle count (1..128) the header
\* holds, pass_mesh writes positions and colors at indices below 64 only and
\* primitive indices at indices below 124 only.
C28_WritesInsideOutputs ==
    /\ \A e \in 1..Len(out_positions) : out_positions[e][1] < OutputVertices
    /\ \A e \in 1..Len(out_indices) : out_indices[e][1] < OutputPrimitives

\* The header told of 64 vertices and 128 triangles, more than the 124
\* primitives of the output, and pass_mesh has run to its end: its last
\* writes were at vertex 32 and primitive 96.
C28_LargestCountsDecoded ==
    /\ dec_pc = "done"
    /\ dec_meshlet.num_vertices = 64
    /\ dec_meshlet.num_primitives = 128
    /\ out_positions[Len(out_positions)][1] = 32
    /\ out_indices[Len(out_indices)][1] = 96

\* C29: in one run of build_from_mesh the AABB of each meshlet is computed
\* exactly once, and that one value is the one the bit-width search, the
\* header writer and the payload writer use (the one kept in meshlet_sizes).
C29_AabbComputedOnce ==
    \A k \in 1..Len(meshlet_sizes) :
        LET calls == {i \in 1..Len(aabb_from_calls) : aabb_from_calls[i].meshlet = k}
        IN  /\ Cardinality(calls) = 1
            /\ \A i \in calls : aabb_from_calls[i].aabb = meshlet_sizes[k][3]
====
